---- MODULE Spec2Model ----
(***************************************************************************)
(* A model of godaikin: the attribute store (Values), the translation      *)
(* tables, the tree-protocol codec of the BRP084 adapter and the device    *)
(* factory (CreateDaikinDevice).                                           *)
(*                                                                         *)
(* Go maps are TLA+ functions whose DOMAIN is the set of keys present.     *)
(* Go strings are TLA+ strings; Len, Head, Tail, SubSeq and \o act on      *)
(* them character by character.                                            *)
(***************************************************************************)
EXTENDS Integers, Sequences, FiniteSets, TLC

VARIABLES
    values,      \* the Values struct of the session: data, lastUpdateByResource, resourceByKey
    now,         \* time.Now(), in minutes
    ret,         \* the last store operation and what it returned
    fetchedAt,   \* history: resource -> time of its last UpdateByResource
    invalidated, \* history: resources with an owned key read with invalidation since then
    tr,          \* translation run: device class, dimension, input, and the outputs so far
    request,     \* DaikinRequest.Attributes handed to Serialize
    payload,     \* what Serialize returned
    response,    \* a decoded JSON response of the tree protocol
    decoded,     \* the last decoder call and what it returned
    config,      \* the deviceID and the Config built from the caller's options
    target,      \* what the device at the address answers to each request
    pc,          \* where CreateDaikinDevice is
    device,      \* the adapter CreateDaikinDevice works on or has returned
    err,         \* the error CreateDaikinDevice returned, "" for nil
    sent,        \* the requests sent so far, in order
    tried        \* history: the probes CreateDaikinDevice has run, each with its error

storeVars == <<values, now, ret, fetchedAt, invalidated>>

codecVars == <<request, payload, response, decoded>>

factoryVars == <<config, target, pc, device, err, sent, tried>>

nonStoreVars == <<tr, codecVars, factoryVars>>

vars == <<storeVars, tr, codecVars, factoryVars>>

(***************************************************************************)
(* Bounds of the model                                                     *)
(***************************************************************************)
TickMinutes == 5     \* the clock advances in steps of this many minutes
MaxTime == 20        \* the clock stops here

StoreKeys == {"a", "b"}
StoreVals == {"1", "2"}
Resources == {"R1", "R2"}

(***************************************************************************)
(* Maps                                                                    *)
(***************************************************************************)
EmptyMap == [x \in {} |-> ""]

MapPut(m, k, v) == [x \in (DOMAIN m) \cup {k} |-> IF x = k THEN v ELSE m[x]]

MapDelete(m, k) == [x \in (DOMAIN m) \ {k} |-> m[x]]

MapMerge(m, b) == [x \in (DOMAIN m) \cup (DOMAIN b) |-> IF x \in DOMAIN b THEN b[x] ELSE m[x]]

\* m[k] of a Go map[string]string: the zero value "" when k is absent
MapGet(m, k) == IF k \in DOMAIN m THEN m[k] ELSE ""

Batches == UNION {[S -> StoreVals] : S \in SUBSET StoreKeys}

(***************************************************************************)
(* values.go: the attribute store.  Each operator takes the store and      *)
(* returns the store after the call (and what the call returns).           *)
(***************************************************************************)
TTL == 15

NewValues == [data |-> EmptyMap, lastUpdateByResource |-> EmptyMap, resourceByKey |-> EmptyMap]

\* a plausible slip: the read never marks the owning resource stale
InvalidateNothing(v, key) == v

\* a plausible slip: the read marks every resource stale
InvalidateAll(v, key) == [v EXCEPT !.lastUpdateByResource = EmptyMap]

Invalidate(v, key) ==
    IF key \in DOMAIN v.resourceByKey
    THEN [v EXCEPT !.lastUpdateByResource = MapDelete(@, v.resourceByKey[key])]
    ELSE v

GetWithInvalidation(v, key, invalidate) ==
    IF key \notin DOMAIN v.data
    THEN [values |-> v, value |-> "", exists |-> FALSE]
    ELSE [values |-> IF invalidate THEN Invalidate(v, key) ELSE v,
          value |-> v.data[key], exists |-> TRUE]

Get(v, key) == GetWithInvalidation(v, key, TRUE)

ValuesSet(v, key, value) == [v EXCEPT !.data = MapPut(@, key, value)]

\* a plausible slip: the value goes, its ownership record stays
DeleteValueOnly(v, key) == [v EXCEPT !.data = MapDelete(@, key)]

Delete(v, key) ==
    [v EXCEPT !.data = MapDelete(@, key), !.resourceByKey = MapDelete(@, key)]

Has(v, key) == key \in DOMAIN v.data

Keys(v) == DOMAIN v.data

All(v) == v.data

ValuesLen(v) == Cardinality(DOMAIN v.data)

\* a plausible slip: an entry exactly TTL old is kept
ExpiredStrict(lastUpdate, t) == t - lastUpdate > TTL

Expired(lastUpdate, t) == t - lastUpdate >= TTL

Sweep(v, t) ==
    [v EXCEPT !.lastUpdateByResource =
        [res \in {r \in DOMAIN @ : ~Expired(@[r], t)} |-> @[res]]]

\* a plausible slip: every resource is reported stale
ShouldResourceBeUpdatedAlways(v, resource, t) == [values |-> Sweep(v, t), result |-> TRUE]

ShouldResourceBeUpdated(v, resource, t) ==
    LET swept == Sweep(v, t)
    IN  [values |-> swept, result |-> resource \notin DOMAIN swept.lastUpdateByResource]

\* a plausible slip: a key that has an owner keeps it
UpdateByResourceKeepingOwner(v, resource, batch, t) ==
    [data |-> MapMerge(v.data, batch),
     resourceByKey |-> MapMerge([k \in DOMAIN batch |-> resource], v.resourceByKey),
     lastUpdateByResource |-> MapPut(v.lastUpdateByResource, resource, t)]

UpdateByResource(v, resource, batch, t) ==
    [data |-> MapMerge(v.data, batch),
     resourceByKey |-> MapMerge(v.resourceByKey, [k \in DOMAIN batch |-> resource]),
     lastUpdateByResource |-> MapPut(v.lastUpdateByResource, resource, t)]

Update(v, batch) == [v EXCEPT !.data = MapMerge(@, batch)]

(***************************************************************************)
(* Translation tables of the five device classes                           *)
(***************************************************************************)
Translations_BRP069 ==
    [mode |-> ("2" :> "dry" @@ "3" :> "cool" @@ "4" :> "hot" @@ "6" :> "fan" @@
               "0" :> "auto" @@ "1" :> "auto-1" @@ "7" :> "auto-7" @@ "10" :> "off"),
     f_rate |-> ("A" :> "auto" @@ "B" :> "silence" @@ "3" :> "1" @@ "4" :> "2" @@
                 "5" :> "3" @@ "6" :> "4" @@ "7" :> "5"),
     f_dir |-> ("0" :> "off" @@ "1" :> "vertical" @@ "2" :> "horizontal" @@ "3" :> "3d"),
     en_hol |-> ("0" :> "off" @@ "1" :> "on"),
     en_streamer |-> ("0" :> "off" @@ "1" :> "on"),
     adv |-> ("" :> "off" @@ "2" :> "powerful" @@ "2/13" :> "powerful streamer" @@
              "12" :> "econo" @@ "12/13" :> "econo streamer" @@ "13" :> "streamer"),
     spmode_kind |-> ("0" :> "streamer" @@ "1" :> "powerful" @@ "2" :> "econo"),
     spmode |-> ("0" :> "off" @@ "1" :> "on")]

Translations_BRP084 ==
    [mode |-> ("0300" :> "auto" @@ "0200" :> "cool" @@ "0100" :> "heat" @@ "0000" :> "fan" @@
               "0500" :> "dry" @@ "00" :> "off" @@ "01" :> "on"),
     f_rate |-> ("0A00" :> "auto" @@ "0B00" :> "quiet" @@ "0300" :> "1" @@ "0400" :> "2" @@
                 "0500" :> "3" @@ "0600" :> "4" @@ "0700" :> "5"),
     f_dir |-> ("off" :> "off" @@ "vertical" :> "vertical" @@ "horizontal" :> "horizontal" @@
                "both" :> "3d")]

Translations_AirBase ==
    [mode |-> ("0" :> "fan" @@ "1" :> "hot" @@ "2" :> "cool" @@ "3" :> "auto" @@ "7" :> "dry"),
     f_rate |-> ("0" :> "auto" @@ "1" :> "low" @@ "3" :> "mid" @@ "5" :> "high" @@
                 "1a" :> "low/auto" @@ "3a" :> "mid/auto" @@ "5a" :> "high/auto")]

Translations_SkyFi ==
    [mode |-> ("0" :> "off" @@ "1" :> "auto" @@ "2" :> "hot" @@ "3" :> "auto-3" @@
               "4" :> "dry" @@ "8" :> "cool" @@ "9" :> "auto-9" @@ "16" :> "fan"),
     f_rate |-> ("1" :> "low" @@ "2" :> "medium" @@ "3" :> "high" @@ "5" :> "low/auto" @@
                 "6" :> "medium/auto" @@ "7" :> "high/auto")]

Classes == {"BRP069", "BRP072C", "BRP084", "AirBase", "SkyFi"}

\* the Translations field each constructor sets; NewDaikinBRP072C wraps NewDaikinBRP069
Translations(class) ==
    CASE class = "BRP069" -> Translations_BRP069
      [] class = "BRP072C" -> Translations_BRP069
      [] class = "BRP084" -> Translations_BRP084
      [] class = "AirBase" -> Translations_AirBase
      [] class = "SkyFi" -> Translations_SkyFi
      [] OTHER -> EmptyMap

translateValue(translations, dimension, value) ==
    IF dimension \in DOMAIN translations /\ value \in DOMAIN translations[dimension]
    THEN translations[dimension][value]
    ELSE value

\* a plausible slip: the reverse lookup compares the wire code, not the semantic value
reverseTranslateValueByCode(translations, dimension, value) ==
    IF dimension \in DOMAIN translations /\ value \in DOMAIN translations[dimension]
    THEN {translations[dimension][value]}
    ELSE {value}

\* a plausible slip: a value the table does not hold encodes to the empty string
reverseTranslateValueOrEmpty(translations, dimension, value) ==
    LET hits == IF dimension \in DOMAIN translations
                THEN {daikinValue \in DOMAIN translations[dimension] :
                          translations[dimension][daikinValue] = value}
                ELSE {}
    IN  IF hits # {} THEN hits ELSE {""}

\* The values reverseTranslateValue can return: it ranges over the Go map in an
\* unspecified order and returns the first wire code whose semantic value matches.
reverseTranslateValue(translations, dimension, value) ==
    LET hits == IF dimension \in DOMAIN translations
                THEN {daikinValue \in DOMAIN translations[dimension] :
                          translations[dimension][daikinValue] = value}
                ELSE {}
    IN  IF hits # {} THEN hits ELSE {value}


(***************************************************************************)
(* The tree protocol: the request encoder (DaikinRequest.Serialize).       *)
(*                                                                         *)
(* A Go map is a reference: the maps Serialize builds live in a heap (a    *)
(* sequence of map objects, a reference is an index into it).  A Go slice  *)
(* is a value (pointer, length, capacity): a map field of slice type holds *)
(* the slice header that was stored in it, and append to a slice of        *)
(* capacity 0 returns a new slice without touching any stored header.      *)
(***************************************************************************)
Format(attribute) == [pn |-> attribute.Name, pv |-> attribute.Value]

\* a lookup that never finds the endpoint's request
getExistingToNever(heap, to, requests) == 0

\* the request whose "to" is the endpoint, 0 for nil
getExistingTo(heap, to, requests) ==
    LET hits == {i \in 1..Len(requests) : heap[requests[i]].to = to}
    IN  IF hits = {} THEN 0 ELSE requests[CHOOSE i \in hits : \A j \in hits : i <= j]

\* the index of the child named name, 0 for Go's -1
getExistingIndex(heap, name, children) ==
    LET hits == {i \in 1..Len(children) : heap[children[i]].pn = name}
    IN  IF hits = {} THEN 0 ELSE CHOOSE i \in hits : \A j \in hits : i <= j

\* the loop over attribute.Path: entry is the local slice variable
RECURSIVE walkPath(_, _, _)
walkPath(heap, entry, path) ==
    IF path = <<>> THEN [heap |-> heap, entry |-> entry]
    ELSE LET pn == Head(path)
             index == getExistingIndex(heap, pn, entry)
         IN  IF index = 0
             THEN LET newEntry == Len(heap) + 1
                      heap2 == Append(heap, [pn |-> pn, pch |-> <<>>])
                      \* entry = append(entry, newEntry) changes the local only, and
                      \* entry = newEntry["pch"] then replaces it
                  IN  walkPath(heap2, heap2[newEntry].pch, Tail(path))
             ELSE walkPath(heap, heap[entry[index]].pch, Tail(path))

\* one iteration of the loop over d.Attributes
serializeAttribute(st, attribute) ==
    LET found == getExistingTo(st.heap, attribute.To, st.requests)
        pcRef == Len(st.heap) + 1
        newRequest == Len(st.heap) + 2
        st1 == IF found = 0
               THEN [heap |-> st.heap \o <<[pn |-> "dgc_status", pch |-> <<>>],
                                          [op |-> 3, pc |-> pcRef, to |-> attribute.To]>>,
                     requests |-> Append(st.requests, newRequest)]
               ELSE st
        to == IF found = 0 THEN newRequest ELSE found
        entry == st1.heap[st1.heap[to].pc].pch
        w == walkPath(st1.heap, entry, attribute.Path)
        \* entry = append(entry, attribute.Format()): the leaf map is built and the
        \* slice holding it is the local's, which goes out of scope
    IN  [heap |-> Append(w.heap, Format(attribute)), requests |-> st1.requests]

RECURSIVE serializeLoop(_, _)
serializeLoop(st, attributes) ==
    IF attributes = <<>> THEN st
    ELSE serializeLoop(serializeAttribute(st, Head(attributes)), Tail(attributes))

\* the JSON tree json.Marshal writes for the map object at ref
RECURSIVE Marshal(_, _)
Marshal(heap, ref) ==
    LET m == heap[ref]
    IN  IF "pch" \in DOMAIN m
        THEN [pn |-> m.pn, pch |-> [i \in 1..Len(m.pch) |-> Marshal(heap, m.pch[i])]]
        ELSE m

\* Serialize(nil): the payload, as the JSON tree that is sent
Serialize(attributes) ==
    LET st == serializeLoop([heap |-> <<>>, requests |-> <<>>], attributes)
    IN  [requests |-> [i \in 1..Len(st.requests) |->
            [op |-> st.heap[st.requests[i]].op,
             to |-> st.heap[st.requests[i]].to,
             pc |-> Marshal(st.heap, st.heap[st.requests[i]].pc)]]]


(***************************************************************************)
(* The tree protocol: decoded JSON and the response decoder.               *)
(*                                                                         *)
(* A decoded JSON value (interface{}) carries its dynamic type in t.  A    *)
(* JSON object is a function whose DOMAIN is the set of its members.       *)
(***************************************************************************)
Nil == [t |-> "nil"]

Str(s) == [t |-> "string", s |-> s]

List(l) == [t |-> "list", l |-> l]

Leaf(pn, pv) == [pn |-> pn, pv |-> pv]

Branch(pn, pch) == [pn |-> pn, pch |-> pch]

RECURSIVE JoinStrings(_, _)
JoinStrings(l, sep) ==
    IF l = <<>> THEN ""
    ELSE IF Len(l) = 1 THEN l[1]
    ELSE l[1] \o sep \o JoinStrings(Tail(l), sep)

\* fmt.Sprintf("%v", v); the elements of a list are kept as they print
Sprintf(v) ==
    CASE v.t = "string" -> v.s
      [] v.t = "list" -> "[" \o JoinStrings(v.l, " ") \o "]"
      [] OTHER -> "<nil>"

API_PATHS ==
    [power |-> <<"/dsiot/edge/adr_0100.dgc_status", "dgc_status", "e_1002", "e_A002", "p_01">>,
     mode |-> <<"/dsiot/edge/adr_0100.dgc_status", "dgc_status", "e_1002", "e_3001", "p_01">>,
     indoor_temp |-> <<"/dsiot/edge/adr_0100.dgc_status", "dgc_status", "e_1002", "e_A00B", "p_01">>,
     indoor_humidity |-> <<"/dsiot/edge/adr_0100.dgc_status", "dgc_status", "e_1002", "e_A00B", "p_02">>,
     outdoor_temp |-> <<"/dsiot/edge/adr_0200.dgc_status", "dgc_status", "e_1003", "e_A00D", "p_01">>,
     mac_address |-> <<"/dsiot/edge.adp_i", "adp_i", "mac">>,
     today_runtime |-> <<"/dsiot/edge/adr_0100.i_power.week_power", "week_power", "today_runtime">>,
     weekly_data |-> <<"/dsiot/edge/adr_0100.i_power.week_power", "week_power", "datas">>]

\* a path of temp_settings, fan_settings or swing_settings: all share the prefix
SettingPath(p) == <<"/dsiot/edge/adr_0100.dgc_status", "dgc_status", "e_1002", "e_3001", p>>

temp_settings ==
    [cool |-> SettingPath("p_02"), heat |-> SettingPath("p_03"), auto |-> SettingPath("p_1D")]

fan_settings ==
    [auto |-> SettingPath("p_26"), cool |-> SettingPath("p_09"), heat |-> SettingPath("p_0A"),
     fan |-> SettingPath("p_28")]

swing_settings ==
    [auto |-> [vertical |-> SettingPath("p_20"), horizontal |-> SettingPath("p_21")],
     cool |-> [vertical |-> SettingPath("p_05"), horizontal |-> SettingPath("p_06")],
     heat |-> [vertical |-> SettingPath("p_07"), horizontal |-> SettingPath("p_08")],
     fan |-> [vertical |-> SettingPath("p_24"), horizontal |-> SettingPath("p_25")],
     dry |-> [vertical |-> SettingPath("p_22"), horizontal |-> SettingPath("p_23")]]

MODE_MAP ==
    "0300" :> "auto" @@ "0200" :> "cool" @@ "0100" :> "heat" @@ "0000" :> "fan" @@ "0500" :> "dry"

FAN_MODE_MAP ==
    "0A00" :> "auto" @@ "0B00" :> "quiet" @@ "0300" :> "1" @@ "0400" :> "2" @@
    "0500" :> "3" @@ "0600" :> "4" @@ "0700" :> "5"

TURN_OFF_SWING_AXIS == "000000"

TURN_ON_SWING_AXIS == "0F0000"

Found(value) == [err |-> FALSE, value |-> value]

NotFound == [err |-> TRUE, value |-> Nil]

Last(q) == q[Len(q)]

MinOf(S) == CHOOSE i \in S : \A j \in S : i <= j

\* the loop over keys of findValueByPN: targetData is the current list of nodes
RECURSIVE findWalk(_, _)
findWalk(targetData, keys) ==
    IF keys = <<>> THEN NotFound
    ELSE LET named == {i \in 1..Len(targetData) :
                          "pn" \in DOMAIN targetData[i] /\ targetData[i].pn = Head(keys)}
             inner == {i \in named : "pch" \in DOMAIN targetData[i]}
         IN  IF Len(keys) = 1
             THEN IF named = {} THEN NotFound
                  ELSE LET dataMap == targetData[MinOf(named)]
                       IN  Found(IF "pv" \in DOMAIN dataMap THEN dataMap.pv ELSE Nil)
             ELSE IF inner = {} THEN NotFound
                  ELSE findWalk(targetData[MinOf(inner)].pch, Tail(keys))

findValueByPN(data, fr, keys) ==
    IF "responses" \notin DOMAIN data \/ data.responses.t # "list" THEN NotFound
    ELSE LET responses == data.responses.l
             hits == {i \in 1..Len(responses) :
                         /\ "fr" \in DOMAIN responses[i] /\ responses[i].fr = fr
                         /\ "pc" \in DOMAIN responses[i]}
         IN  IF hits = {} THEN NotFound
             ELSE findWalk(<<responses[MinOf(hits)].pc>>, keys)

\* findValueByPN(data, path[0], path[1:]...)
findByPath(data, path) == findValueByPN(data, Head(path), Tail(path))

\* a plausible slip: the two axes are swapped
SwingOfAxesSwapped(vertical, horizontal) ==
    IF horizontal /\ vertical THEN "both"
    ELSE IF vertical THEN "horizontal"
    ELSE IF horizontal THEN "vertical"
    ELSE "off"

SwingOfAxes(vertical, horizontal) ==
    IF horizontal /\ vertical THEN "both"
    ELSE IF horizontal THEN "horizontal"
    ELSE IF vertical THEN "vertical"
    ELSE "off"

\* getSwingState: the store after the read of mode, and the state returned
getSwingState(v, data) ==
    LET g == Get(v, "mode")
        mode == g.value
    IN  IF mode = "" \/ mode = "off" THEN [values |-> g.values, state |-> "off"]
        ELSE IF mode \notin DOMAIN swing_settings THEN [values |-> g.values, state |-> "off"]
        ELSE LET verticalVal == findByPath(data, swing_settings[mode].vertical)
                 horizontalVal == findByPath(data, swing_settings[mode].horizontal)
                 verticalStr == Sprintf(verticalVal.value)
                 horizontalStr == Sprintf(horizontalVal.value)
             IN  IF ~verticalVal.err /\ ~horizontalVal.err
                 THEN [values |-> g.values,
                       state |-> SwingOfAxes(Len(verticalStr) > 0 /\ Head(verticalStr) = "F",
                                             Len(horizontalStr) > 0 /\ Head(horizontalStr) = "F")]
                 ELSE [values |-> g.values, state |-> "off"]


(***************************************************************************)
(* What a tree-protocol device answers: its registers, as the response     *)
(* document of the combined status query                                   *)
(***************************************************************************)
RegisterOrder ==
    <<"p_01", "p_02", "p_03", "p_05", "p_06", "p_07", "p_08", "p_09", "p_0A", "p_1D",
      "p_20", "p_21", "p_22", "p_23", "p_24", "p_25", "p_26", "p_28",
      "mac", "today_runtime", "datas">>

\* the leaves of the registers in regs (name -> decoded JSON value), in a fixed order
RECURSIVE LeavesFrom(_, _)
LeavesFrom(regs, order) ==
    IF order = <<>> THEN <<>>
    ELSE IF Head(order) \in DOMAIN regs
         THEN <<Leaf(Head(order), regs[Head(order)])>> \o LeavesFrom(regs, Tail(order))
         ELSE LeavesFrom(regs, Tail(order))

Leaves(regs) == LeavesFrom(regs, RegisterOrder)

\* image: for each entity (e_A002, e_3001, e_A00B, e_A00D, week_power, adp_i) its registers
StatusResponse(image) ==
    [responses |-> List(<<
        [fr |-> "/dsiot/edge/adr_0100.dgc_status",
         pc |-> Branch("dgc_status", <<Branch("e_1002", <<
                    Branch("e_A002", Leaves(image.e_A002)),
                    Branch("e_3001", Leaves(image.e_3001)),
                    Branch("e_A00B", Leaves(image.e_A00B))>>)>>)],
        [fr |-> "/dsiot/edge/adr_0200.dgc_status",
         pc |-> Branch("dgc_status", <<Branch("e_1003", <<
                    Branch("e_A00D", Leaves(image.e_A00D))>>)>>)],
        [fr |-> "/dsiot/edge/adr_0100.i_power.week_power",
         pc |-> Branch("week_power", Leaves(image.week_power))],
        [fr |-> "/dsiot/edge.adp_i",
         pc |-> Branch("adp_i", Leaves(image.adp_i))] >>)]

NoRegisters ==
    [e_A002 |-> EmptyMap, e_3001 |-> EmptyMap, e_A00B |-> EmptyMap, e_A00D |-> EmptyMap,
     week_power |-> EmptyMap, adp_i |-> EmptyMap]


(***************************************************************************)
(* Strings, as the Go library functions used by the adapters treat them    *)
(***************************************************************************)
AsciiLow == " !\"#$%&'()*+,-./0123456789:;<=>?@ABCDEFGHIJKLMNOPQRSTUVWXYZ[\\]^_"

AsciiHigh == "abcdefghijklmnopqrstuvwxyz{|}~"

\* the character of a byte value 32..95 or 97..126
Chr(n) ==
    IF n < 96 THEN SubSeq(AsciiLow, n - 31, n - 31) ELSE SubSeq(AsciiHigh, n - 96, n - 96)

At(s, i) == SubSeq(s, i, i)

\* strings.Index for a one-character separator, counted from 1; 0 stands for -1
Index(s, sep) ==
    LET hits == {i \in 1..Len(s) : At(s, i) = sep}
    IN  IF hits = {} THEN 0 ELSE MinOf(hits)

RECURSIVE Split(_, _)
Split(s, sep) ==
    LET i == Index(s, sep)
    IN  IF i = 0 THEN <<s>>
        ELSE <<SubSeq(s, 1, i - 1)>> \o Split(SubSeq(s, i + 1, Len(s)), sep)

\* strings.SplitN(s, sep, 2)
SplitN2(s, sep) ==
    LET i == Index(s, sep)
    IN  IF i = 0 THEN <<s>> ELSE <<SubSeq(s, 1, i - 1), SubSeq(s, i + 1, Len(s))>>

Whitespace == {" ", "\t", "\n", "\r"}

RECURSIVE TrimLeft(_)
TrimLeft(s) == IF s # "" /\ At(s, 1) \in Whitespace THEN TrimLeft(SubSeq(s, 2, Len(s))) ELSE s

RECURSIVE TrimRight(_)
TrimRight(s) ==
    IF s # "" /\ At(s, Len(s)) \in Whitespace THEN TrimRight(SubSeq(s, 1, Len(s) - 1)) ELSE s

TrimSpace(s) == TrimRight(TrimLeft(s))

HexDigits == "0123456789abcdef"

HexUpper == "0123456789ABCDEF"

ishex(c) == Index(HexDigits, c) # 0 \/ Index(HexUpper, c) # 0

unhex(c) == IF Index(HexDigits, c) # 0 THEN Index(HexDigits, c) - 1 ELSE Index(HexUpper, c) - 1

RECURSIVE unescape(_)
unescape(s) ==
    IF s = "" THEN ""
    ELSE IF At(s, 1) = "%"
         THEN Chr(16 * unhex(At(s, 2)) + unhex(At(s, 3))) \o unescape(SubSeq(s, 4, Len(s)))
         ELSE (IF At(s, 1) = "+" THEN " " ELSE At(s, 1)) \o unescape(SubSeq(s, 2, Len(s)))

\* url.QueryUnescape: an escape that is not % and two hex digits is an error
QueryUnescape(s) ==
    IF \E i \in 1..Len(s) :
          At(s, i) = "%" /\ (i + 2 > Len(s) \/ ~ishex(At(s, i + 1)) \/ ~ishex(At(s, i + 2)))
    THEN [err |-> TRUE, value |-> ""]
    ELSE [err |-> FALSE, value |-> unescape(s)]

\* strconv.Itoa
RECURSIVE Itoa(_)
Itoa(n) ==
    IF n < 0 THEN "-" \o Itoa(-n)
    ELSE IF n < 10 THEN At(HexDigits, n + 1)
    ELSE Itoa(n \div 10) \o At(HexDigits, (n % 10) + 1)

RECURSIVE digitsValue(_, _, _)
digitsValue(s, base, acc) ==
    IF s = "" THEN acc ELSE digitsValue(SubSeq(s, 2, Len(s)), base, acc * base + unhex(At(s, 1)))

\* strconv.ParseInt(s, base, 64) for base 10 or 16 and values that fit 64 bits
ParseInt(s, base) ==
    LET signed == s # "" /\ At(s, 1) \in {"+", "-"}
        digits == IF signed THEN SubSeq(s, 2, Len(s)) ELSE s
    IN  IF digits = "" \/ \E i \in 1..Len(digits) : ~ishex(At(digits, i)) \/ unhex(At(digits, i)) >= base
        THEN [err |-> TRUE, value |-> 0]
        ELSE [err |-> FALSE,
              value |-> IF signed /\ At(s, 1) = "-" THEN 0 - digitsValue(digits, base, 0)
                        ELSE digitsValue(digits, base, 0)]


(***************************************************************************)
(* parseResponse: the comma-separated key=value body of the query-string   *)
(* protocols                                                               *)
(***************************************************************************)
RECURSIVE parsePairs(_, _)
parsePairs(pairs, resp) ==
    IF pairs = <<>> THEN resp
    ELSE LET parts == SplitN2(Head(pairs), "=")
         IN  IF Len(parts) # 2 THEN parsePairs(Tail(pairs), resp)
             ELSE parsePairs(Tail(pairs),
                             MapPut(resp, TrimSpace(parts[1]), TrimSpace(parts[2])))

\* a plausible slip: the pairs are returned whatever ret says
parseResponseAnyRet(responseBody) ==
    LET finish(resp) ==
            IF "ret" \notin DOMAIN resp THEN [err |-> "ParseError", data |-> EmptyMap]
            ELSE IF "name" \in DOMAIN resp /\ ~QueryUnescape(resp["name"]).err
                 THEN [err |-> "",
                       data |-> MapPut(MapDelete(resp, "ret"), "name",
                                       QueryUnescape(resp["name"]).value)]
                 ELSE [err |-> "", data |-> MapDelete(resp, "ret")]
    IN  finish(parsePairs(Split(responseBody, ","), EmptyMap))

\* err is the kind of the error returned, "" for nil
parseResponse(responseBody) ==
    LET finish(resp) ==
            IF "ret" \notin DOMAIN resp THEN [err |-> "ParseError", data |-> EmptyMap]
            ELSE IF resp["ret"] # "OK" THEN [err |-> "", data |-> EmptyMap]
            ELSE IF "name" \in DOMAIN resp /\ ~QueryUnescape(resp["name"]).err
                 THEN [err |-> "",
                       data |-> MapPut(MapDelete(resp, "ret"), "name",
                                       QueryUnescape(resp["name"]).value)]
                 ELSE [err |-> "", data |-> MapDelete(resp, "ret")]
    IN  finish(parsePairs(Split(responseBody, ","), EmptyMap))


(***************************************************************************)
(* The device on the network.  A target is what stands at the address: it  *)
(* answers a request with a transport failure (status 0) or with an HTTP   *)
(* status and a body.  The text of a JSON body is abbreviated to "{}": it  *)
(* is read only by json.Decode, whose result is the json field.            *)
(***************************************************************************)
Undecodable == [t |-> "undecodable"]

TransportError == [status |-> 0, body |-> "", json |-> Undecodable]

Http(status, body) == [status |-> status, body |-> body, json |-> Undecodable]

HttpJSON(status, doc) == [status |-> status, body |-> "{}", json |-> doc]

\* http.NewRequestWithContext: the request as the adapter builds it
NewRequest(method, url, query, headers, body) ==
    [method |-> method, url |-> url, query |-> query, headers |-> headers, body |-> body]

\* the path of a URL scheme://host/path
PathOf(url) ==
    LET parts == Split(url, "/")
    IN  JoinStrings(SubSeq(parts, 4, Len(parts)), "/")

\* the registers of a tree-protocol device that runs in cool mode
RunningCool ==
    [NoRegisters EXCEPT
        !.e_A002 = "p_01" :> Str("01"),
        !.e_3001 = "p_01" :> Str("0200") @@ "p_02" :> Str("2C") @@ "p_09" :> Str("0A00") @@
                   "p_05" :> Str("F00000") @@ "p_06" :> Str("000000"),
        !.e_A00B = "p_01" :> Str("15") @@ "p_02" :> Str("32"),
        !.e_A00D = "p_01" :> Str("28"),
        !.week_power = "today_runtime" :> Str("120") @@ "datas" :> List(<<"1", "2">>),
        !.adp_i = "mac" :> Str("A1B2C3")]

TreeTargets ==
    {"tree", "tree_off", "tree_nomode", "tree_badmode", "tree_bare", "tree_empty", "tree_nolist",
     "tree_noresponses"}

\* the decoded body of a tree-protocol target's answer to the status query
TreeDocument(tg) ==
    CASE tg = "tree" -> StatusResponse(RunningCool)
      [] tg = "tree_off" -> StatusResponse([RunningCool EXCEPT !.e_A002 = "p_01" :> Str("00")])
      [] tg = "tree_nomode" ->
            StatusResponse([RunningCool EXCEPT !.e_3001 = "p_02" :> Str("2C")])
      [] tg = "tree_badmode" ->
            StatusResponse([RunningCool EXCEPT !.e_3001 = "p_01" :> Str("0900") @@ "p_02" :> Str("2C")])
      [] tg = "tree_bare" -> StatusResponse(NoRegisters)
      [] tg = "tree_empty" -> [responses |-> List(<<>>)]
      [] tg = "tree_nolist" -> [responses |-> Str("busy")]
      [] OTHER -> [error |-> Str("unsupported")]

LegacyTargets == {"legacy", "legacy_ng", "secure", "secure_reject"}

\* query-string devices with separate swing fields: the last two characters of the
\* name are what the device reports as f_dir_ud and f_dir_lr
SwingTargets ==
    {"legacy_swing_00", "legacy_swing_S0", "legacy_swing_0S", "legacy_swing_SS",
     "legacy_swing_10"}

\* devices that answer every status request and fail every command with status 500
DeafTargets == {"legacy_deaf", "airbase_deaf", "tree_deaf"}

\* the bodies of a query-string device, by resource
LegacyBody(tg, path) ==
    IF tg = "legacy_ng" THEN "ret=PARAM NG"
    ELSE CASE path = "common/basic_info" ->
                 "ret=OK,type=aircon,reg=eu,ver=1_2_54,name=%44%61%69+1,mac=A1B2C3"
           [] path = "aircon/get_control_info" ->
                 IF tg \in SwingTargets
                 THEN "ret=OK,pow=1,mode=3,stemp=22.0,f_rate=A,f_dir_ud=" \o SubSeq(tg, 14, 14)
                      \o ",f_dir_lr=" \o SubSeq(tg, 15, 15)
                 ELSE IF tg = "legacy_defaults"
                 THEN "ret=OK,pow=1,mode=3,stemp=22.0,shum=0,f_rate=A,f_dir=0,"
                      \o "dt3=22.0,dt4=25.0,dh3=0,dh4=0,dfr3=A,dfr4=5"
                 ELSE "ret=OK,pow=1,mode=3,stemp=22.0,f_rate=A,f_dir=0"
           [] path = "aircon/get_sensor_info" -> "ret=OK,htemp=21.0,otemp=-,cmpfreq=0"
           [] path = "aircon/get_model_info" -> "ret=OK,model=0ABB,en_hol=0"
           [] OTHER -> "ret=OK"

AirBaseBody(tg, path) ==
    CASE path = "skyfi/common/basic_info" -> "ret=OK,type=aircon,name=%41%42,mac=A1B2C3"
      [] path = "skyfi/aircon/get_control_info" ->
            IF tg = "airbase_nomode" THEN "ret=OK,pow=1,mode=,stemp=22,f_rate=3,f_auto=1"
            ELSE IF tg = "airbase_manual" THEN "ret=OK,pow=1,mode=2,stemp=22,f_rate=5,f_auto=0"
            ELSE "ret=OK,pow=1,mode=2,stemp=22,f_rate=3,f_auto=1"
      [] path = "skyfi/aircon/get_model_info" -> "ret=OK,model=NOTSUPPORT"
      [] path = "skyfi/aircon/get_sensor_info" -> "ret=OK,htemp=21,otemp=-"
      [] OTHER -> "ret=OK,zone_name=%5a1,zone_onoff=1"

SkyFiBody(tg, path) ==
    IF tg = "skyfi" \/ (tg = "skyfi_flaky" /\ path = "zones.cgi") THEN (IF path = "ac.cgi" THEN "opmode=1&settemp=24&fanspeed=2&fanflags=3"
                          ELSE "nz=2&zone=128")
    ELSE (IF path = "ac.cgi" THEN "ret=OK,acc=x&fanflags=3&fanspeed=1&z="
          ELSE "ret=OK,nz=2")

\* devices that answer one resource of a refresh differently from the others
FlakyTargets ==
    {"legacy_flaky", "legacy_gone", "airbase_flaky", "airbase_gone", "skyfi_flaky", "skyfi_gone"}

Targets ==
    {"silent", "forbidden", "error500", "webserver", "airbase", "airbase_nomode", "skyfi",
     "skyfi_ret"} \cup TreeTargets \cup LegacyTargets

\* HTTPClient.Do answered by the target
Do(tg, req) ==
    LET path == PathOf(req.url)
    IN
    CASE tg = "silent" -> TransportError
      [] tg = "forbidden" -> Http(403, "")
      [] tg = "error500" -> Http(500, "")
      [] tg = "webserver" -> Http(200, "<html></html>")
      [] tg \in TreeTargets ->
            IF req.method = "POST" /\ path = "dsiot/multireq"
            THEN HttpJSON(200, TreeDocument(tg)) ELSE Http(404, "")
      [] tg = "tree_deaf" ->
            IF req.method # "POST" \/ path # "dsiot/multireq" THEN Http(404, "")
            ELSE IF \E i \in 1..Len(req.body.requests) : req.body.requests[i].op = 3
            THEN Http(500, "")
            ELSE HttpJSON(200, TreeDocument("tree"))
      [] tg \in LegacyTargets \cup SwingTargets
                \cup {"legacy_flaky", "legacy_gone", "legacy_deaf", "legacy_defaults"} ->
            IF req.method # "GET" \/ Index(path, "/") = 0 \/ SubSeq(path, 1, 6) = "skyfi/"
            THEN Http(404, "")
            ELSE IF path = "common/register_terminal"
            THEN (IF tg = "secure" THEN Http(200, "ret=OK")
                  ELSE IF tg = "secure_reject" THEN Http(403, "") ELSE Http(404, ""))
            ELSE IF tg = "legacy_flaky" /\ path = "aircon/get_sensor_info" THEN Http(500, "")
            ELSE IF tg = "legacy_gone" /\ path = "aircon/get_control_info" THEN Http(404, "")
            ELSE IF tg = "legacy_deaf" /\ path = "aircon/set_control_info" THEN Http(500, "")
            ELSE Http(200, LegacyBody(tg, path))
      [] tg \in {"airbase", "airbase_nomode", "airbase_flaky", "airbase_gone", "airbase_deaf",
                 "airbase_manual"} ->
            IF req.method # "GET" \/ SubSeq(path, 1, 6) # "skyfi/" THEN Http(404, "")
            ELSE IF tg = "airbase_flaky" /\ path = "skyfi/aircon/get_control_info"
            THEN Http(500, "")
            ELSE IF tg = "airbase_gone" /\ path = "skyfi/aircon/get_zone_setting"
            THEN Http(404, "")
            ELSE IF tg = "airbase_deaf" /\ path = "skyfi/aircon/set_control_info"
            THEN Http(500, "")
            ELSE Http(200, AirBaseBody(tg, path))
      [] OTHER ->
            IF req.method # "GET" \/ path \notin {"ac.cgi", "zones.cgi"}
               \/ "pass" \notin DOMAIN req.query
            THEN TransportError
            ELSE IF tg = "skyfi_gone" /\ path = "zones.cgi" THEN Http(404, "")
            ELSE Http(200, SkyFiBody(tg, path))


(***************************************************************************)
(* BaseAppliance.  An adapter in a call is the record d of its store and   *)
(* of the requests sent so far; a call returns d with err, the kind of the *)
(* error returned ("" for nil).                                            *)
(***************************************************************************)
NewBaseAppliance(deviceIP) ==
    [class |-> "Base", BaseURL |-> "http://" \o deviceIP, Headers |-> EmptyMap,
     Translations |-> EmptyMap, MaxConcurrentRequests |-> 4, values |-> NewValues, sent |-> <<>>]

\* a plausible slip: a status of 404 is an error like every other status but 200
getResourceOnly200(tg, d, path, params) ==
    LET receive(d1, resp) ==
            CASE resp.status = 0 -> [d |-> d1, err |-> "ConnectionError", data |-> EmptyMap]
              [] resp.status = 403 -> [d |-> d1, err |-> "AuthenticationError", data |-> EmptyMap]
              [] resp.status # 200 -> [d |-> d1, err |-> "ConnectionError", data |-> EmptyMap]
              [] resp.body = "" -> [d |-> d1, err |-> "ConnectionError", data |-> EmptyMap]
              [] OTHER -> [d |-> d1] @@ parseResponse(resp.body)
        send(req) == receive([d EXCEPT !.sent = Append(@, req)], Do(tg, req))
    IN  send(NewRequest("GET", d.BaseURL \o "/" \o path, params, d.Headers, <<>>))

getResource(tg, d, path, params) ==
    LET receive(d1, resp) ==
            CASE resp.status = 0 -> [d |-> d1, err |-> "ConnectionError", data |-> EmptyMap]
              [] resp.status = 403 -> [d |-> d1, err |-> "AuthenticationError", data |-> EmptyMap]
              [] resp.status = 404 -> [d |-> d1, err |-> "", data |-> EmptyMap]
              [] resp.status # 200 -> [d |-> d1, err |-> "ConnectionError", data |-> EmptyMap]
              [] resp.body = "" -> [d |-> d1, err |-> "ConnectionError", data |-> EmptyMap]
              [] OTHER -> [d |-> d1] @@ parseResponse(resp.body)
        send(req) == receive([d EXCEPT !.sent = Append(@, req)], Do(tg, req))
    IN  send(NewRequest("GET", d.BaseURL \o "/" \o path, params, d.Headers, <<>>))

\* a plausible slip: the stored mode is translated without a look at the power state
GetModeIgnoringPower(translations, v) ==
    LET m == Get(v, "mode")
    IN  IF m.exists
        THEN [values |-> m.values, mode |-> translateValue(translations, "mode", m.value)]
        ELSE [values |-> m.values, mode |-> "unknown"]

\* BaseAppliance.GetMode, with the store after its invalidating reads
GetMode(translations, v) ==
    LET p == Get(v, "pow")
        m == Get(p.values, "mode")
    IN  IF p.exists /\ p.value = "0" THEN [values |-> p.values, mode |-> "off"]
        ELSE IF m.exists
             THEN [values |-> m.values, mode |-> translateValue(translations, "mode", m.value)]
             ELSE [values |-> m.values, mode |-> "unknown"]


\* BaseAppliance.GetPowerState, with the store after its invalidating read
GetPowerState(v) ==
    LET p == Get(v, "pow")
    IN  [values |-> p.values, state |-> p.exists /\ p.value = "1"]

(***************************************************************************)
(* The legacy adapter (BRP069) and the secure-token adapter (BRP072C)      *)
(***************************************************************************)
HTTPResources_BRP069 ==
    <<"common/basic_info", "common/get_remote_method", "aircon/get_sensor_info",
      "aircon/get_model_info", "aircon/get_control_info", "aircon/get_target",
      "aircon/get_price", "common/get_holiday", "common/get_notify",
      "aircon/get_day_power_ex", "aircon/get_week_power", "aircon/get_year_power",
      "common/get_datetime">>

\* a plausible slip: the codes of vertical and horizontal swing are exchanged
parseSpecialFieldsSwapped(data) ==
    IF "f_dir_ud" \in DOMAIN data /\ "f_dir_lr" \in DOMAIN data
    THEN LET udDir == data["f_dir_ud"]
             lrDir == data["f_dir_lr"]
         IN  CASE udDir = "0" /\ lrDir = "0" -> MapPut(data, "f_dir", "0")
               [] udDir = "S" /\ lrDir = "0" -> MapPut(data, "f_dir", "2")
               [] udDir = "0" /\ lrDir = "S" -> MapPut(data, "f_dir", "1")
               [] udDir = "S" /\ lrDir = "S" -> MapPut(data, "f_dir", "3")
               [] OTHER -> data
    ELSE data

parseSpecialFields(data) ==
    IF "f_dir_ud" \in DOMAIN data /\ "f_dir_lr" \in DOMAIN data
    THEN LET udDir == data["f_dir_ud"]
             lrDir == data["f_dir_lr"]
         IN  CASE udDir = "0" /\ lrDir = "0" -> MapPut(data, "f_dir", "0")
               [] udDir = "S" /\ lrDir = "0" -> MapPut(data, "f_dir", "1")
               [] udDir = "0" /\ lrDir = "S" -> MapPut(data, "f_dir", "2")
               [] udDir = "S" /\ lrDir = "S" -> MapPut(data, "f_dir", "3")
               [] OTHER -> data
    ELSE data

\* the first loop of updateStatusWithResources: each test sweeps the store
RECURSIVE resourcesToUpdate(_, _, _)
resourcesToUpdate(v, resources, t) ==
    IF resources = <<>> THEN [values |-> v, list |-> <<>>]
    ELSE LET s == ShouldResourceBeUpdated(v, Head(resources), t)
             rest == resourcesToUpdate(s.values, Tail(resources), t)
         IN  [values |-> rest.values,
              list |-> IF s.result THEN <<Head(resources)>> \o rest.list ELSE rest.list]

\* a plausible slip: the loop ends at the first resource that fails
RECURSIVE updateEachUntilFailure(_, _, _, _)
updateEachUntilFailure(tg, d, resources, t) ==
    LET store(r) ==
            IF r.err # "" THEN r.d
            ELSE updateEachUntilFailure(tg,
                            [r.d EXCEPT !.values = UpdateByResource(@, Head(resources),
                                                       parseSpecialFields(r.data), t)],
                            Tail(resources), t)
    IN  IF resources = <<>> THEN d
        ELSE store(getResource(tg, d, Head(resources), EmptyMap))

\* the second loop: a failed resource is logged and skipped
RECURSIVE updateEach(_, _, _, _)
updateEach(tg, d, resources, t) ==
    LET store(r) ==
            IF r.err # "" THEN updateEach(tg, r.d, Tail(resources), t)
            ELSE updateEach(tg,
                            [r.d EXCEPT !.values = UpdateByResource(@, Head(resources),
                                                       parseSpecialFields(r.data), t)],
                            Tail(resources), t)
    IN  IF resources = <<>> THEN d
        ELSE store(getResource(tg, d, Head(resources), EmptyMap))

updateStatusWithResources(tg, d, resources, t) ==
    LET update(f) == [d |-> updateEach(tg, [d EXCEPT !.values = f.values], f.list, t), err |-> ""]
    IN  update(resourcesToUpdate(d.values, resources, t))

autoSetClock(tg, d) ==
    getResource(tg, d, "common/get_datetime", "cur" :> "")

\* DaikinBRP069.Init
Init_BRP069(tg, d, t) ==
    LET rest(b) ==
            IF b.err # "" THEN b
            ELSE updateStatusWithResources(tg, b.d, Tail(HTTPResources_BRP069), t)
    IN  rest(updateStatusWithResources(tg, autoSetClock(tg, d).d, <<"common/basic_info">>, t))

\* a plausible slip: initialization without the terminal registration
Init_BRP072CUnregistered(tg, d, t) == Init_BRP069(tg, d, t)

\* DaikinBRP072C.Init
Init_BRP072C(tg, d, t) ==
    LET registered(r) ==
            IF r.err # "" THEN [d |-> r.d, err |-> r.err]
            ELSE Init_BRP069(tg, r.d, t)
    IN  registered(getResource(tg, d, "common/register_terminal", "key" :> d.Key))


(***************************************************************************)
(* The fallback basic adapter (AirBase)                                    *)
(***************************************************************************)
HTTPResources_AirBase ==
    <<"common/basic_info", "aircon/get_control_info", "aircon/get_model_info",
      "aircon/get_sensor_info", "aircon/get_zone_setting">>

parseResponse_AirBase(data) ==
    IF "f_auto" \in DOMAIN data /\ data["f_auto"] = "1" /\ "f_rate" \in DOMAIN data
    THEN MapPut(data, "f_rate", data["f_rate"] \o "a")
    ELSE data

RECURSIVE initEach_AirBase(_, _, _, _)
initEach_AirBase(tg, d, resources, t) ==
    LET store(r) ==
            IF r.err # "" THEN initEach_AirBase(tg, r.d, Tail(resources), t)
            ELSE initEach_AirBase(tg,
                                  [r.d EXCEPT !.values =
                                      UpdateByResource(@, "skyfi/" \o Head(resources),
                                                       parseResponse_AirBase(r.data), t)],
                                  Tail(resources), t)
    IN  IF resources = <<>> THEN d
        ELSE store(getResource(tg, d, "skyfi/" \o Head(resources), EmptyMap))

SetIfMissing(v, key, value) == IF Has(v, key) THEN v ELSE ValuesSet(v, key, value)

\* the model name the adapter substitutes
FixModel(v) ==
    LET fix(m) ==
            IF m.exists /\ m.value = "NOTSUPPORT"
            THEN ValuesSet(m.values, "model", "Airbase BRP15B61") ELSE m.values
    IN  fix(Get(v, "model"))

\* DaikinAirBase.Init
Init_AirBase(tg, d, t) ==
    [d |-> [initEach_AirBase(tg, d, HTTPResources_AirBase, t) EXCEPT !.values =
               FixModel(SetIfMissing(SetIfMissing(SetIfMissing(@, "htemp", "-"),
                                                  "otemp", "-"), "shum", "--"))],
     err |-> ""]


(***************************************************************************)
(* The password-authenticated adapter (SkyFi)                              *)
(***************************************************************************)
HTTPResources_SkyFi == <<"ac.cgi", "zones.cgi">>

Ord(c) ==
    IF Index(AsciiLow, c) # 0 THEN 31 + Index(AsciiLow, c) ELSE 96 + Index(AsciiHigh, c)

\* the order of Go strings: byte by byte
RECURSIVE StringLess(_, _)
StringLess(a, b) ==
    IF b = "" THEN FALSE
    ELSE IF a = "" THEN TRUE
    ELSE IF At(a, 1) = At(b, 1) THEN StringLess(SubSeq(a, 2, Len(a)), SubSeq(b, 2, Len(b)))
    ELSE Ord(At(a, 1)) < Ord(At(b, 1))

RECURSIVE SortedKeys(_)
SortedKeys(S) ==
    IF S = {} THEN <<>>
    ELSE LET first == CHOOSE x \in S : \A y \in S \ {x} : StringLess(x, y)
         IN  <<first>> \o SortedKeys(S \ {first})

\* fmt.Sprintf("%v", data) of a map[string]string: map[k:v k:v], keys in order
SprintfMap(data) ==
    LET keys == SortedKeys(DOMAIN data)
    IN  "map[" \o JoinStrings([i \in 1..Len(keys) |-> keys[i] \o ":" \o data[keys[i]]], " ") \o "]"

skyfiToDaikin(key) ==
    LET mapping == [outsidetemp |-> "otemp", roomtemp |-> "htemp", settemp |-> "stemp",
                    opmode |-> "pow", fanspeed |-> "f_rate", acmode |-> "mode"]
    IN  IF key \in DOMAIN mapping THEN mapping[key] ELSE key

daikinToSkyFi(key) ==
    LET mapping == [otemp |-> "outsidetemp", htemp |-> "roomtemp", stemp |-> "settemp",
                    pow |-> "opmode", f_rate |-> "fanspeed", mode |-> "acmode"]
    IN  IF key \in DOMAIN mapping THEN mapping[key] ELSE key

\* the fan speed with the automatic flag folded in
foldFanFlags(parsed) ==
    IF "fanflags" \in DOMAIN parsed /\ parsed["fanflags"] = "3" /\ "fanspeed" \in DOMAIN parsed
       /\ ~ParseInt(parsed["fanspeed"], 10).err
    THEN MapPut(parsed, "fanspeed", Itoa(ParseInt(parsed["fanspeed"], 10).value + 4))
    ELSE parsed

RECURSIVE parseSkyFiPairs(_, _)
parseSkyFiPairs(pairs, result) ==
    IF pairs = <<>> THEN result
    ELSE LET parts == SplitN2(Head(pairs), "=")
         IN  IF Len(parts) = 2 THEN parseSkyFiPairs(Tail(pairs), MapPut(result, parts[1], parts[2]))
             ELSE parseSkyFiPairs(Tail(pairs), result)

\* parseSkyFiResponse: the set of maps it can return.  Two keys of the response that
\* map to one name are written in the order of a Go map iteration, so either can win.
parseSkyFiResponse(text) ==
    LET outcomes(result, names) ==
            {[key \in names \cup DOMAIN result |->
                IF key \in names THEN result[winner[key]] ELSE result[key]] :
             winner \in {w \in [names -> DOMAIN result] :
                            \A name \in names : skyfiToDaikin(w[name]) = name}}
        translate(result) == outcomes(result, {skyfiToDaikin(key) : key \in DOMAIN result})
    IN  translate(foldFanFlags(parseSkyFiPairs(Split(text, "&"), EmptyMap)))

\* DaikinSkyFi.Init: the set of adapters it can leave
RECURSIVE initEach_SkyFi(_, _, _, _)
initEach_SkyFi(tg, d, resources, t) ==
    LET store(r) ==
            IF r.err # "" THEN initEach_SkyFi(tg, r.d, Tail(resources), t)
            ELSE UNION {initEach_SkyFi(tg,
                            [r.d EXCEPT !.values = UpdateByResource(@, Head(resources), skyfiData, t)],
                            Tail(resources), t) :
                        skyfiData \in parseSkyFiResponse(SprintfMap(r.data))}
    IN  IF resources = <<>> THEN {d}
        ELSE store(getResource(tg, d, Head(resources), "pass" :> d.Password))

Init_SkyFi(tg, d, t) ==
    {[d |-> after, err |-> ""] : after \in initEach_SkyFi(tg, d, HTTPResources_SkyFi, t)}


(***************************************************************************)
(* The tree-protocol adapter (BRP084)                                      *)
(***************************************************************************)
\* a plausible slip: the whole wire value is parsed, not its first two digits
hexToTempWhole(value, divisor) ==
    IF Len(value) < 2 THEN 0
    ELSE LET val == ParseInt(value, 16)
         IN  IF val.err THEN 0 ELSE (val.value * 10) \div divisor

\* hexToTemp, in tenths of a degree: the divisor is 1 or 2
hexToTemp(value, divisor) ==
    IF Len(value) < 2 THEN 0
    ELSE LET val == ParseInt(SubSeq(value, 1, 2), 16)
         IN  IF val.err THEN 0 ELSE (val.value * 10) \div divisor

\* fmt.Sprintf("%.1f", x) of a number given in tenths
FormatTenths(tenths) ==
    IF tenths < 0 THEN "-" \o Itoa((0 - tenths) \div 10) \o "." \o Itoa((0 - tenths) % 10)
    ELSE Itoa(tenths \div 10) \o "." \o Itoa(tenths % 10)

hexToInt(value) ==
    LET val == ParseInt(value, 16)
    IN  IF val.err THEN 0 ELSE val.value

\* the body of the combined status query
StatusQuery ==
    [requests |->
        <<[op |-> 2, to |-> "/dsiot/edge/adr_0100.dgc_status?filter=pv,pt,md"],
          [op |-> 2, to |-> "/dsiot/edge/adr_0200.dgc_status?filter=pv,pt,md"],
          [op |-> 2, to |-> "/dsiot/edge/adr_0100.i_power.week_power?filter=pv,pt,md"],
          [op |-> 2, to |-> "/dsiot/edge.adp_i"]>>]

\* DaikinBRP084.getResource: POST of the payload to URL, the body decoded as JSON
getResource_BRP084(tg, d, params) ==
    LET receive(d1, resp) ==
            CASE resp.status = 0 -> [d |-> d1, err |-> "transport", result |-> Nil]
              [] resp.status # 200 -> [d |-> d1, err |-> "status", result |-> Nil]
              [] resp.json = Undecodable -> [d |-> d1, err |-> "decode", result |-> Nil]
              [] OTHER -> [d |-> d1, err |-> "", result |-> resp.json]
        send(req) == receive([d EXCEPT !.sent = Append(@, req)], Do(tg, req))
    IN  send(NewRequest("POST", d.URL, EmptyMap,
                        MapPut(d.Headers, "Content-Type", "application/json"), params))

\* the part of UpdateStatus that decodes a response into the store, block by block
decodeStatus(v, responseMap) ==
    LET basicInfo(v0) ==
            LET mac == findByPath(responseMap, API_PATHS.mac_address)
            IN  IF ~mac.err THEN ValuesSet(v0, "mac", Sprintf(mac.value)) ELSE v0
        powerState(v0) ==
            LET powerVal == findByPath(responseMap, API_PATHS.power)
            IN  IF powerVal.err THEN v0
                ELSE IF Sprintf(powerVal.value) = "00" THEN ValuesSet(v0, "pow", "0")
                ELSE ValuesSet(v0, "pow", "1")
        mode(v0) ==
            LET modeVal == findByPath(responseMap, API_PATHS.mode)
                pow == Get(v0, "pow")
            IN  IF modeVal.err THEN v0
                ELSE IF pow.value = "0" THEN ValuesSet(pow.values, "mode", "off")
                ELSE IF Sprintf(modeVal.value) \in DOMAIN MODE_MAP
                     THEN ValuesSet(pow.values, "mode", MODE_MAP[Sprintf(modeVal.value)])
                     ELSE pow.values
        outdoor(v0) ==
            LET otempVal == findByPath(responseMap, API_PATHS.outdoor_temp)
            IN  IF otempVal.err THEN v0
                ELSE ValuesSet(v0, "otemp", FormatTenths(hexToTemp(Sprintf(otempVal.value), 2)))
        indoor(v0) ==
            LET htempVal == findByPath(responseMap, API_PATHS.indoor_temp)
            IN  IF htempVal.err THEN v0
                ELSE ValuesSet(v0, "htemp", FormatTenths(hexToTemp(Sprintf(htempVal.value), 1)))
        humidity(v0) ==
            LET humidVal == findByPath(responseMap, API_PATHS.indoor_humidity)
            IN  IF humidVal.err THEN ValuesSet(v0, "hhum", "--")
                ELSE ValuesSet(v0, "hhum", Itoa(hexToInt(Sprintf(humidVal.value))))
        setpoint(m) ==
            IF m.value = "" \/ m.value = "off" THEN ValuesSet(m.values, "stemp", "--")
            ELSE IF m.value \notin DOMAIN temp_settings THEN m.values
            ELSE LET stempVal == findByPath(responseMap, temp_settings[m.value])
                 IN  IF stempVal.err THEN m.values
                     ELSE ValuesSet(m.values, "stemp",
                                    FormatTenths(hexToTemp(Sprintf(stempVal.value), 2)))
        fan(m) ==
            IF m.value = "" \/ m.value = "off" THEN ValuesSet(m.values, "f_rate", "auto")
            ELSE IF m.value \notin DOMAIN fan_settings THEN m.values
            ELSE LET fanVal == findByPath(responseMap, fan_settings[m.value])
                 IN  IF fanVal.err THEN m.values
                     ELSE IF Sprintf(fanVal.value) \in DOMAIN FAN_MODE_MAP
                          THEN ValuesSet(m.values, "f_rate", FAN_MODE_MAP[Sprintf(fanVal.value)])
                          ELSE ValuesSet(m.values, "f_rate", "auto")
        swing(s) == ValuesSet(s.values, "f_dir", s.state)
        runtime(v0) ==
            LET runtimeVal == findByPath(responseMap, API_PATHS.today_runtime)
            IN  IF runtimeVal.err THEN v0
                ELSE ValuesSet(v0, "today_runtime", Sprintf(runtimeVal.value))
        weekly(v0) ==
            LET weeklyVal == findByPath(responseMap, API_PATHS.weekly_data)
            IN  IF ~weeklyVal.err /\ weeklyVal.value.t = "list" /\ Len(weeklyVal.value.l) > 0
                THEN ValuesSet(v0, "datas", JoinStrings(weeklyVal.value.l, "/"))
                ELSE v0
    IN  weekly(runtime(swing(getSwingState(
            fan(Get(setpoint(Get(humidity(indoor(outdoor(mode(powerState(basicInfo(v)))))),
                               "mode")),
                    "mode")),
            responseMap))))

IsObject(doc) == "t" \notin DOMAIN doc

\* DaikinBRP084.UpdateStatus
UpdateStatus_BRP084(tg, d) ==
    LET decode(r) ==
            IF r.err # "" THEN [d |-> r.d, err |-> "failed to communicate with device"]
            ELSE IF \/ ~IsObject(r.result)
                    \/ "responses" \notin DOMAIN r.result
                    \/ r.result.responses = Nil
                 THEN [d |-> r.d, err |-> "invalid response from device"]
                 ELSE [d |-> [r.d EXCEPT !.values = decodeStatus(@, r.result)], err |-> ""]
    IN  decode(getResource_BRP084(tg, d, StatusQuery))

\* DaikinBRP084.GetMode, with the store after its invalidating reads
GetMode_BRP084(v) ==
    LET p == Get(v, "pow")
        m == Get(p.values, "mode")
    IN  IF p.value = "0" THEN [values |-> p.values, mode |-> "off"]
        ELSE IF m.exists THEN [values |-> m.values, mode |-> m.value]
        ELSE [values |-> m.values, mode |-> "unknown"]


\* DaikinBRP084.GetPowerState: the stored text, "0" when there is none
GetPowerState_BRP084(v) ==
    LET p == Get(v, "pow")
    IN  [values |-> p.values, state |-> IF p.exists THEN p.value ELSE "0"]

(***************************************************************************)
(* The constructors and the factory                                        *)
(***************************************************************************)
NewDaikinBRP084(deviceIP) ==
    LET base == NewBaseAppliance(deviceIP)
    IN  [base EXCEPT !.class = "BRP084", !.Translations = Translations_BRP084]
        @@ [URL |-> base.BaseURL \o "/dsiot/multireq"]

NewDaikinBRP069(deviceIP) ==
    [NewBaseAppliance(deviceIP) EXCEPT !.class = "BRP069", !.Translations = Translations_BRP069,
                                       !.MaxConcurrentRequests = 1]

NewDaikinBRP072C(deviceIP, key, uuid) ==
    LET id == IF uuid = "" THEN "pydaikin00000000000000000000000000000000" ELSE uuid
    IN  [NewDaikinBRP069(deviceIP) EXCEPT !.class = "BRP072C",
                                          !.BaseURL = "https://" \o deviceIP,
                                          !.Headers = MapPut(@, "X-Daikin-uuid", id)]
        @@ [Key |-> key, UUID |-> id]

NewDaikinAirBase(deviceIP) ==
    [NewBaseAppliance(deviceIP) EXCEPT !.class = "AirBase", !.Translations = Translations_AirBase]

NewDaikinSkyFi(deviceIP, password) ==
    [NewBaseAppliance(deviceIP) EXCEPT !.class = "SkyFi",
                                       !.Translations = Translations_SkyFi,
                                       !.BaseURL = "http://" \o deviceIP \o ":2000",
                                       !.MaxConcurrentRequests = 1]
    @@ [Password |-> password]

\* extractIPPort: the pattern ^(.+):(\d+)$ splits at the last colon
extractIPPort(deviceID) ==
    LET colons == {i \in 1..Len(deviceID) : At(deviceID, i) = ":"}
        last == IF colons = {} THEN 0 ELSE CHOOSE i \in colons : \A j \in colons : j <= i
        digits == SubSeq(deviceID, last + 1, Len(deviceID))
    IN  IF last > 1 /\ digits # "" /\ \A i \in 1..Len(digits) : Index("0123456789", At(digits, i)) # 0
        THEN [ip |-> SubSeq(deviceID, 1, last - 1), port |-> ParseInt(digits, 10).value]
        ELSE [ip |-> deviceID, port |-> 0]

\* the BaseURL override for a port other than the class's own
WithPort(d, scheme, deviceIP, devicePort, own) ==
    IF devicePort # 0 /\ devicePort # own
    THEN [d EXCEPT !.BaseURL = scheme \o "://" \o deviceIP \o ":" \o Itoa(devicePort)]
    ELSE d

\* device.(*BaseAppliance): holds for the dynamic type *BaseAppliance only
IsBaseAppliance(d) == d.class = "Base"

tryBRP084Device(tg, deviceIP, devicePort) ==
    LET check(r) ==
            IF r.err # "" THEN [d |-> r.d, err |-> "not a BRP084 device"]
            ELSE IF ValuesLen(r.d.values) = 0
                 THEN [d |-> r.d, err |-> "empty values from BRP084 device"]
                 ELSE [d |-> r.d, err |-> ""]
        probe(device0) ==
            check(UpdateStatus_BRP084(tg, [device0 EXCEPT !.URL = device0.BaseURL \o "/dsiot/multireq"]))
    IN  probe(WithPort(NewDaikinBRP084(deviceIP), "http", deviceIP, devicePort, 80))

\* a plausible slip: the adapter is initialized whatever basic_info parsed to
tryBRP069DeviceUnchecked(tg, deviceIP, devicePort, t) ==
    LET initialized(i) ==
            IF i.err # "" THEN [d |-> i.d, err |-> "failed to initialize BRP069"]
            ELSE IF ValuesLen(i.d.values) = 0
                 THEN [d |-> i.d, err |-> "empty values from BRP069 device"]
                 ELSE i
        check(r) ==
            IF r.err # "" THEN [d |-> r.d, err |-> "not a BRP069 device"]
            ELSE initialized(Init_BRP069(tg, r.d, t))
    IN  check(updateStatusWithResources(tg,
                  WithPort(NewDaikinBRP069(deviceIP), "http", deviceIP, devicePort, 80),
                  <<"common/basic_info">>, t))

tryBRP069Device(tg, deviceIP, devicePort, t) ==
    LET initialized(i) ==
            IF i.err # "" THEN [d |-> i.d, err |-> "failed to initialize BRP069"] ELSE i
        check(r) ==
            IF r.err # "" THEN [d |-> r.d, err |-> "not a BRP069 device"]
            ELSE IF ValuesLen(r.d.values) = 0
                 THEN [d |-> r.d, err |-> "empty values from BRP069 device"]
                 ELSE initialized(Init_BRP069(tg, r.d, t))
    IN  check(updateStatusWithResources(tg,
                  WithPort(NewDaikinBRP069(deviceIP), "http", deviceIP, devicePort, 80),
                  <<"common/basic_info">>, t))

\* a plausible slip: an adapter that fetched nothing is refused
createSkyFiChecked(tg, call, t) ==
    LET a == extractIPPort(call.deviceID)
    IN  {IF ValuesLen(r.d.values) = 0
         THEN [d |-> r.d, err |-> "failed to initialize SkyFi device"] ELSE r :
         r \in Init_SkyFi(tg, WithPort(NewDaikinSkyFi(a.ip, call.Password), "http",
                                       a.ip, a.port, 2000), t)}

\* CreateDaikinDevice with a password: the outcomes
createSkyFi(tg, call, t) ==
    LET a == extractIPPort(call.deviceID)
    IN  {IF r.err # "" THEN [d |-> r.d, err |-> "failed to initialize SkyFi device"] ELSE r :
         r \in Init_SkyFi(tg, WithPort(NewDaikinSkyFi(a.ip, call.Password), "http",
                                       a.ip, a.port, 2000), t)}

\* CreateDaikinDevice with a key and no password
createBRP072C(tg, call, t) ==
    LET a == extractIPPort(call.deviceID)
        initialized(r) ==
            IF r.err # "" THEN [d |-> r.d, err |-> "failed to initialize BRP072C device"] ELSE r
    IN  initialized(Init_BRP072C(tg, WithPort(NewDaikinBRP072C(a.ip, call.Key, call.UUID), "https",
                                              a.ip, a.port, 443), t))

\* a plausible slip: the first probe is never accepted
probeBRP084Refused(tg, call) ==
    LET a == extractIPPort(call.deviceID)
    IN  [tryBRP084Device(tg, a.ip, a.port) EXCEPT !.err = "not a BRP084 device"]

\* CreateDaikinDevice without credentials, first probe
probeBRP084(tg, call) ==
    LET a == extractIPPort(call.deviceID)
        seed(r, mode) ==
            IF (mode.mode = "" \/ mode.mode = "unknown") /\ IsBaseAppliance(r.d)
            THEN [r EXCEPT !.d.values = ValuesSet(ValuesSet(mode.values, "mode", "off"), "pow", "0")]
            ELSE [r EXCEPT !.d.values = mode.values]
        detected(r) == IF r.err # "" THEN r ELSE seed(r, GetMode_BRP084(r.d.values))
    IN  detected(tryBRP084Device(tg, a.ip, a.port))

\* second probe
probeBRP069(tg, call, t) ==
    LET a == extractIPPort(call.deviceID)
    IN  tryBRP069Device(tg, a.ip, a.port, t)

\* the fallback
createAirBase(tg, call, t) ==
    LET a == extractIPPort(call.deviceID)
        accept(r, mode) ==
            IF mode.mode = ""
            THEN [d |-> [r.d EXCEPT !.values = mode.values],
                  err |-> "error creating device, is not supported"]
            ELSE [d |-> [r.d EXCEPT !.values = mode.values], err |-> ""]
        initialized(r) ==
            IF r.err # "" THEN [d |-> r.d, err |-> "failed to initialize AirBase device"]
            ELSE accept(r, GetMode(r.d.Translations, r.d.values))
    IN  initialized(Init_AirBase(tg, WithPort(NewDaikinAirBase(a.ip), "http", a.ip, a.port, 80), t))



(***************************************************************************)
(* The special commands.  The legacy adapter (and the secure-token adapter *)
(* that wraps it) implements them; every other class has the refusal of    *)
(* BaseAppliance or, for the tree-protocol adapter, its own.  Each is the  *)
(* set of outcomes the call can have.                                      *)
(***************************************************************************)
IsLegacy(d) == d.class \in {"BRP069", "BRP072C"}

SetHoliday(tg, d, mode) ==
    LET sendIt(r) ==
            IF r.err # "" THEN [d |-> r.d, err |-> "failed to set holiday mode"]
            ELSE [d |-> r.d, err |-> ""]
        apply(value) ==
            IF value # "0" /\ value # "1" THEN [d |-> d, err |-> "invalid holiday mode"]
            ELSE sendIt(getResource(tg, [d EXCEPT !.values = ValuesSet(@, "en_hol", value)],
                                    "common/set_holiday", "en_hol" :> value))
    IN  IF IsLegacy(d)
        THEN {apply(value) : value \in reverseTranslateValue(d.Translations, "en_hol", mode)}
        ELSE IF d.class = "BRP084"
        THEN {[d |-> d, err |-> "holiday mode not supported in firmware 2.8.0"]}
        ELSE {[d |-> d, err |-> "SetHoliday not supported by this device type"]}

SetAdvancedMode(tg, d, mode, value) ==
    LET sendIt(r) ==
            IF r.err # "" THEN [d |-> r.d, err |-> "failed to set advanced mode"]
            ELSE [d |-> [r.d EXCEPT !.values = Update(@, r.data)], err |-> ""]
        apply(modeValue, enableValue) ==
            IF enableValue # "0" /\ enableValue # "1"
            THEN [d |-> d, err |-> "invalid advanced mode value"]
            ELSE sendIt(getResource(tg, d, "aircon/set_special_mode",
                                    "spmode_kind" :> modeValue @@ "set_spmode" :> enableValue))
    IN  IF IsLegacy(d)
        THEN {apply(modeValue, enableValue) :
                 modeValue \in reverseTranslateValue(d.Translations, "spmode_kind", mode),
                 enableValue \in reverseTranslateValue(d.Translations, "spmode", value)}
        ELSE IF d.class = "BRP084"
        THEN {[d |-> d, err |-> "advanced mode not supported in firmware 2.8.0"]}
        ELSE {[d |-> d, err |-> "SetAdvancedMode not supported by this device type"]}

\* a plausible slip: a class without the command ignores it
SetStreamerDropped(tg, d, mode) ==
    IF IsLegacy(d)
    THEN {[d |-> d, err |-> "invalid streamer mode"]}
    ELSE {[d |-> d, err |-> ""]}

SetStreamer(tg, d, mode) ==
    LET sendIt(r) ==
            IF r.err # "" THEN [d |-> r.d, err |-> "failed to set streamer mode"]
            ELSE [d |-> [r.d EXCEPT !.values = Update(@, r.data)], err |-> ""]
        apply(value) ==
            IF value # "0" /\ value # "1" THEN [d |-> d, err |-> "invalid streamer mode"]
            ELSE sendIt(getResource(tg, d, "aircon/set_special_mode", "en_streamer" :> value))
    IN  IF IsLegacy(d)
        THEN {apply(value) : value \in reverseTranslateValue(d.Translations, "en_streamer", mode)}
        ELSE IF d.class = "BRP084"
        THEN {[d |-> d, err |-> "streamer mode not supported in firmware 2.8.0"]}
        ELSE {[d |-> d, err |-> "SetStreamer not supported by this device type"]}



(***************************************************************************)
(* The periodic refresh (UpdateStatus) of the query-string adapters        *)
(***************************************************************************)
InfoResources_BRP069 == <<"aircon/get_sensor_info", "aircon/get_control_info">>

SupportsEnergyConsumption(v) ==
    Has(v, "datas") \/ Has(v, "curr_day_cool") \/ Has(v, "curr_day_heat")

UpdateStatus_BRP069(tg, d, t) ==
    updateStatusWithResources(tg, d,
        IF SupportsEnergyConsumption(d.values)
        THEN InfoResources_BRP069 \o <<"aircon/get_day_power_ex", "aircon/get_week_power">>
        ELSE InfoResources_BRP069, t)

InfoResources_AirBase ==
    <<"aircon/get_sensor_info", "aircon/get_control_info", "aircon/get_zone_setting">>

\* the loop of DaikinAirBase.UpdateStatus: test, fetch and store, resource by resource
RECURSIVE updateEach_AirBase(_, _, _, _)
updateEach_AirBase(tg, d, resources, t) ==
    LET store(r) ==
            IF r.err # "" THEN updateEach_AirBase(tg, r.d, Tail(resources), t)
            ELSE updateEach_AirBase(tg,
                                    [r.d EXCEPT !.values =
                                        UpdateByResource(@, "skyfi/" \o Head(resources),
                                                         parseResponse_AirBase(r.data), t)],
                                    Tail(resources), t)
        test(s) ==
            IF s.result
            THEN store(getResource(tg, [d EXCEPT !.values = s.values],
                                   "skyfi/" \o Head(resources), EmptyMap))
            ELSE updateEach_AirBase(tg, [d EXCEPT !.values = s.values], Tail(resources), t)
    IN  IF resources = <<>> THEN d
        ELSE test(ShouldResourceBeUpdated(d.values, "skyfi/" \o Head(resources), t))

UpdateStatus_AirBase(tg, d, t) ==
    [d |-> updateEach_AirBase(tg, d, InfoResources_AirBase, t), err |-> ""]

\* the loop of DaikinSkyFi.UpdateStatus: the set of adapters it can leave
RECURSIVE updateEach_SkyFi(_, _, _, _)
updateEach_SkyFi(tg, d, resources, t) ==
    LET store(r) ==
            IF r.err # "" THEN updateEach_SkyFi(tg, r.d, Tail(resources), t)
            ELSE UNION {updateEach_SkyFi(tg,
                            [r.d EXCEPT !.values = UpdateByResource(@, Head(resources), skyfiData, t)],
                            Tail(resources), t) :
                        skyfiData \in parseSkyFiResponse(SprintfMap(r.data))}
        test(s) ==
            IF s.result
            THEN store(getResource(tg, [d EXCEPT !.values = s.values],
                                   Head(resources), "pass" :> d.Password))
            ELSE updateEach_SkyFi(tg, [d EXCEPT !.values = s.values], Tail(resources), t)
    IN  IF resources = <<>> THEN {d}
        ELSE test(ShouldResourceBeUpdated(d.values, Head(resources), t))

\* InfoResources of the SkyFi adapter is its HTTPResources
UpdateStatus_SkyFi(tg, d, t) ==
    {[d |-> after, err |-> ""] : after \in updateEach_SkyFi(tg, d, HTTPResources_SkyFi, t)}



(***************************************************************************)
(* Set of the legacy adapter and of AirBase.  A loop over a Go map runs in *)
(* an unspecified order, so each is the set of outcomes the call can have. *)
(***************************************************************************)
\* for key, value := range settings { Values.Set(key, reverseTranslateValue(key, value)) }
setTranslated(v, translations, settings) ==
    {Update(v, chosen) :
        chosen \in {f \in [DOMAIN settings ->
                              UNION {reverseTranslateValue(translations, k, settings[k]) :
                                        k \in DOMAIN settings}] :
                       \A k \in DOMAIN settings :
                          f[k] \in reverseTranslateValue(translations, k, settings[k])}}

\* the power state that follows from the settings: off only for mode "off"
handleSpecialCases(v, settings, currentValues) ==
    IF "mode" \in DOMAIN settings
    THEN IF settings["mode"] = "off"
         THEN IF "mode" \in DOMAIN currentValues
              THEN ValuesSet(ValuesSet(v, "pow", "0"), "mode", currentValues["mode"])
              ELSE ValuesSet(v, "pow", "0")
         ELSE ValuesSet(v, "pow", "1")
    ELSE IF DOMAIN settings # {} THEN ValuesSet(v, "pow", "1")
    ELSE v

\* the per-mode defaults dt<mode>, dh<mode>, dfr<mode> of the device for what was not set
modeSpecificSettings(v, settings, currentValues) ==
    LET currentMode == MapGet(v.data, "mode")
        settingsMap == [stemp |-> "dt", shum |-> "dh", f_rate |-> "dfr"]
        taken == {setting \in DOMAIN settingsMap :
                     /\ setting \notin DOMAIN settings
                     /\ (settingsMap[setting] \o currentMode) \in DOMAIN currentValues}
    IN  Update(v, [setting \in taken |-> currentValues[settingsMap[setting] \o currentMode]])

updateSettings_BRP069(tg, d, settings, t) ==
    LET merge(r) ==
            IF r.err # "" THEN {[d |-> r.d, err |-> "failed to get current control info"]}
            ELSE {[d |-> [r.d EXCEPT !.values =
                             modeSpecificSettings(handleSpecialCases(v, settings, r.data),
                                                  settings, r.data)],
                   err |-> ""] :
                  v \in setTranslated(UpdateByResource(r.d.values, "aircon/get_control_info",
                                                       r.data, t),
                                      d.Translations, settings)}
    IN  merge(getResource(tg, d, "aircon/get_control_info", EmptyMap))

\* the parameters of aircon/set_control_info
controlParams_BRP069(v) ==
    LET allValues == All(v)
        fDir == MapGet(allValues, "f_dir")
    IN  [k \in {"mode", "pow", "shum", "stemp"} |-> MapGet(allValues, k)]
        @@ (IF Has(v, "f_rate") THEN "f_rate" :> MapGet(allValues, "f_rate") ELSE EmptyMap)
        @@ (IF ~Has(v, "f_dir") THEN EmptyMap
            ELSE IF "f_dir_lr" \in DOMAIN allValues
            THEN "f_dir_ud" :> (IF fDir \in {"1", "3"} THEN "S" ELSE "0")
                 @@ "f_dir_lr" :> (IF fDir \in {"2", "3"} THEN "S" ELSE "0")
            ELSE "f_dir" :> fDir)

Set_BRP069(tg, d, settings, t) ==
    LET sendIt(r) ==
            IF r.err # "" THEN [d |-> r.d, err |-> "failed to set control info"]
            ELSE [d |-> r.d, err |-> ""]
        control(u) ==
            IF u.err # "" THEN [d |-> u.d, err |-> "failed to update settings"]
            ELSE sendIt(getResource(tg, u.d, "aircon/set_control_info",
                                    controlParams_BRP069(u.d.values)))
    IN  {control(u) : u \in updateSettings_BRP069(tg, d, settings, t)}

updateSettings_AirBase(tg, d, settings, t) ==
    LET merge(r) ==
            IF r.err # "" THEN {[d |-> r.d, err |-> "failed to get current control info"]}
            ELSE {[d |-> [r.d EXCEPT !.values = handleSpecialCases(v, settings, r.data)],
                   err |-> ""] :
                  v \in setTranslated(UpdateByResource(r.d.values, "skyfi/aircon/get_control_info",
                                                       r.data, t),
                                      d.Translations, settings)}
    IN  merge(getResource(tg, d, "skyfi/aircon/get_control_info", EmptyMap))

\* the parameters of skyfi/aircon/set_control_info; v holds f_airside
controlParams_AirBase(v) ==
    LET allValues == All(v)
        fRate == MapGet(allValues, "f_rate")
        auto == fRate # "" /\ SubSeq(fRate, Len(fRate), Len(fRate)) = "a"
    IN  [k \in {"f_airside", "f_dir", "mode", "pow", "shum", "stemp"} |-> MapGet(allValues, k)]
        @@ "f_auto" :> (IF auto THEN "1" ELSE "0")
        @@ "f_rate" :> (IF auto THEN SubSeq(fRate, 1, Len(fRate) - 1) ELSE fRate)
        @@ "lpw" :> ""

Set_AirBase(tg, d, settings, t) ==
    LET sendIt(r) ==
            IF r.err # "" THEN [d |-> r.d, err |-> "failed to set control info"]
            ELSE [d |-> r.d, err |-> ""]
        control(u) ==
            IF u.err # "" THEN [d |-> u.d, err |-> "failed to update settings"]
            ELSE sendIt(getResource(tg, [u.d EXCEPT !.values = SetIfMissing(@, "f_airside", "0")],
                                    "skyfi/aircon/set_control_info",
                                    controlParams_AirBase(SetIfMissing(u.d.values, "f_airside", "0"))))
    IN  {control(u) : u \in updateSettings_AirBase(tg, d, settings, t)}



(***************************************************************************)
(* Set of the password-authenticated adapter                               *)
(***************************************************************************)
\* for key, value := range settings { Values.Set(daikinToSkyFi(key), reverseTranslateValue(key, value)) }
\* when two settings name one device key, the one the loop visits last stays
setTranslated_SkyFi(v, translations, settings) ==
    LET skyfiKeys == {daikinToSkyFi(k) : k \in DOMAIN settings}
        written(skyfiKey) ==
            UNION {reverseTranslateValue(translations, k, settings[k]) :
                      k \in {s \in DOMAIN settings : daikinToSkyFi(s) = skyfiKey}}
    IN  {Update(v, chosen) :
            chosen \in {f \in [skyfiKeys -> UNION {written(sk) : sk \in skyfiKeys}] :
                           \A sk \in skyfiKeys : f[sk] \in written(sk)}}

Set_SkyFi(tg, d, settings, t) ==
    LET turnOff(r) ==
            IF r.err # "" THEN [d |-> r.d, err |-> "failed to turn off"]
            ELSE [d |-> r.d, err |-> ""]
        control(r) ==
            IF r.err # "" THEN [d |-> r.d, err |-> "failed to set control"]
            ELSE [d |-> r.d, err |-> ""]
        off(d1) ==
            turnOff(getResource(tg, d1, "set.cgi", "p" :> MapGet(All(d1.values), "opmode")))
        normal(d1) ==
            control(getResource(tg, d1, "set.cgi",
                                [p |-> MapGet(All(d1.values), "opmode"),
                                 t |-> MapGet(All(d1.values), "settemp"),
                                 f |-> MapGet(All(d1.values), "fanspeed"),
                                 m |-> MapGet(All(d1.values), "acmode")]))
        command(d1) ==
            IF "mode" \in DOMAIN settings /\ settings["mode"] = "off"
            THEN off([d1 EXCEPT !.values = ValuesSet(@, "opmode", "0")])
            ELSE IF "mode" \in DOMAIN settings
            THEN normal([d1 EXCEPT !.values = ValuesSet(@, "opmode", "1")])
            ELSE normal(d1)
        merge(u) ==
            IF u.err # "" THEN {[d |-> u.d, err |-> "failed to update status"]}
            ELSE {command([u.d EXCEPT !.values = v]) :
                     v \in setTranslated_SkyFi(u.d.values, d.Translations, settings)}
    IN  UNION {merge(u) : u \in UpdateStatus_SkyFi(tg, d, t)}



(***************************************************************************)
(* Set of the tree-protocol adapter                                        *)
(***************************************************************************)
REVERSE_MODE_MAP == [m \in {MODE_MAP[k] : k \in DOMAIN MODE_MAP} |->
                        CHOOSE k \in DOMAIN MODE_MAP : MODE_MAP[k] = m]

REVERSE_FAN_MODE_MAP == [m \in {FAN_MODE_MAP[k] : k \in DOMAIN FAN_MODE_MAP} |->
                            CHOOSE k \in DOMAIN FAN_MODE_MAP : FAN_MODE_MAP[k] = m]

\* strconv.ParseFloat of an unsigned decimal with at most one fractional digit, in
\* tenths; any other text the model draws is a syntax error, whose value is 0
ParseFloat(s) ==
    LET parts == Split(s, ".")
        whole == ParseInt(parts[1], 10)
        frac == ParseInt(parts[2], 10)
    IN  IF Len(parts) = 1 /\ ~whole.err /\ whole.value >= 0 /\ At(s, 1) \notin {"+", "-"}
        THEN [err |-> FALSE, value |-> whole.value * 10]
        ELSE IF /\ Len(parts) = 2 /\ Len(parts[2]) = 1
                /\ ~whole.err /\ ~frac.err /\ At(s, 1) \notin {"+", "-"}
        THEN [err |-> FALSE, value |-> whole.value * 10 + frac.value]
        ELSE [err |-> TRUE, value |-> 0]

RECURSIVE HexOf(_)
HexOf(n) ==
    IF n < 16 THEN At(HexDigits, n + 1) ELSE HexOf(n \div 16) \o At(HexDigits, (n % 16) + 1)

\* fmt.Sprintf("%02x", int(temperature * divisor)), the temperature in tenths
tempToHex(temperature, divisor) ==
    LET text == HexOf((temperature * divisor) \div 10)
    IN  IF Len(text) < 2 THEN "0" \o text ELSE text

addRequest(requests, path, value) ==
    Append(requests, [Name |-> Last(path), Value |-> value, Path |-> SubSeq(path, 3, 4),
                      To |-> path[1]])

handlePowerSetting(settings, requests) ==
    IF "mode" \notin DOMAIN settings THEN requests
    ELSE IF settings["mode"] = "off" THEN addRequest(requests, API_PATHS.power, "00")
    ELSE IF settings["mode"] \in DOMAIN REVERSE_MODE_MAP
    THEN addRequest(addRequest(requests, API_PATHS.power, "01"),
                    API_PATHS.mode, REVERSE_MODE_MAP[settings["mode"]])
    ELSE addRequest(requests, API_PATHS.power, "01")

\* the three handlers read the stored mode with Get: st is the store and the requests
handleTemperatureSetting(st, settings) ==
    LET read(m) ==
            IF "stemp" \in DOMAIN settings /\ m.value # "" /\ m.value \in DOMAIN temp_settings
            THEN [values |-> m.values,
                  requests |-> addRequest(st.requests, temp_settings[m.value],
                                          tempToHex(ParseFloat(settings["stemp"]).value, 2))]
            ELSE [values |-> m.values, requests |-> st.requests]
    IN  IF "stemp" \notin DOMAIN settings THEN st ELSE read(Get(st.values, "mode"))

handleFanSetting(st, settings) ==
    LET read(m) ==
            IF /\ m.value # "" /\ m.value \in DOMAIN fan_settings
               /\ settings["f_rate"] \in DOMAIN REVERSE_FAN_MODE_MAP
            THEN [values |-> m.values,
                  requests |-> addRequest(st.requests, fan_settings[m.value],
                                          REVERSE_FAN_MODE_MAP[settings["f_rate"]])]
            ELSE [values |-> m.values, requests |-> st.requests]
    IN  IF "f_rate" \notin DOMAIN settings THEN st ELSE read(Get(st.values, "mode"))

handleSwingSetting(st, settings) ==
    LET fDir == settings["f_dir"]
        verticalValue == IF fDir \in {"vertical", "both", "3d"} THEN TURN_ON_SWING_AXIS
                         ELSE IF fDir \in {"off", "horizontal"} THEN TURN_OFF_SWING_AXIS
                         ELSE ""
        horizontalValue == IF fDir \in {"horizontal", "both", "3d"} THEN TURN_ON_SWING_AXIS
                           ELSE IF fDir \in {"off", "vertical"} THEN TURN_OFF_SWING_AXIS
                           ELSE ""
        read(m) ==
            IF m.value # "" /\ m.value \in DOMAIN swing_settings
            THEN [values |-> m.values,
                  requests |-> addRequest(addRequest(st.requests,
                                                     swing_settings[m.value].vertical,
                                                     verticalValue),
                                          swing_settings[m.value].horizontal, horizontalValue)]
            ELSE [values |-> m.values, requests |-> st.requests]
    IN  IF "f_dir" \notin DOMAIN settings THEN st ELSE read(Get(st.values, "mode"))

\* DaikinBRP084.updateSettings: the stores the loop over the settings can leave
RECURSIVE updateSettings_BRP084(_, _, _)
updateSettings_BRP084(v, settings, keys) ==
    LET apply(key) ==
            IF key = "mode" /\ settings[key] = "off" THEN ValuesSet(v, "pow", "0")
            ELSE IF key = "mode" THEN ValuesSet(ValuesSet(v, "pow", "1"), "mode", settings[key])
            ELSE ValuesSet(v, key, settings[key])
    IN  IF keys = {} THEN {v}
        ELSE UNION {updateSettings_BRP084(apply(key), settings, keys \ {key}) : key \in keys}

Set_BRP084(tg, d, settings) ==
    LET refresh(r) ==
            IF r.err # "" THEN [d |-> r.d, err |-> r.err]
            ELSE UpdateStatus_BRP084(tg, r.d)
        command(st) ==
            IF st.requests = <<>> THEN [d |-> [d EXCEPT !.values = st.values], err |-> ""]
            ELSE refresh(getResource_BRP084(tg, [d EXCEPT !.values = st.values],
                                            Serialize(st.requests)))
    IN  {command(handleSwingSetting(handleFanSetting(handleTemperatureSetting(
                    [values |-> v, requests |-> handlePowerSetting(settings, <<>>)],
                    settings), settings), settings)) :
            v \in updateSettings_BRP084(d.values, settings, DOMAIN settings)}


(***************************************************************************)
(* The store driven by an arbitrary caller                                 *)
(***************************************************************************)
NoRet == [op |-> "", arg |-> "", invalidate |-> FALSE, value |-> "", ok |-> FALSE]

Ret(op, arg, invalidate, value, ok) ==
    [op |-> op, arg |-> arg, invalidate |-> invalidate, value |-> value, ok |-> ok]

NoTr == [stage |-> "idle", class |-> "", dimension |-> "", input |-> "", output |-> "", back |-> ""]

StoreInit ==
    /\ values = NewValues
    /\ now = 0
    /\ ret = NoRet
    /\ fetchedAt = EmptyMap
    /\ invalidated = {}

CodecIdle ==
    /\ request = <<>>
    /\ payload = EmptyMap
    /\ response = EmptyMap
    /\ decoded = [op |-> ""]

\* nil, for an adapter
NoDevice == [class |-> ""]

FactoryIdle ==
    /\ config = [deviceID |-> "", Password |-> "", Key |-> "", UUID |-> ""]
    /\ target = ""
    /\ pc = "idle"
    /\ device = NoDevice
    /\ err = ""
    /\ sent = <<>>
    /\ tried = <<>>

Init ==
    /\ StoreInit
    /\ tr = NoTr
    /\ CodecIdle
    /\ FactoryIdle

GetStep(key, invalidate) ==
    LET r == GetWithInvalidation(values, key, invalidate)
    IN  /\ values' = r.values
        /\ ret' = Ret("Get", key, invalidate, r.value, r.exists)
        /\ invalidated' = IF r.exists /\ invalidate /\ key \in DOMAIN values.resourceByKey
                          THEN invalidated \cup {values.resourceByKey[key]}
                          ELSE invalidated
        /\ UNCHANGED <<nonStoreVars, now, fetchedAt>>

SetStep(key, value) ==
    /\ values' = ValuesSet(values, key, value)
    /\ ret' = Ret("Set", key, FALSE, value, TRUE)
    /\ UNCHANGED <<nonStoreVars, now, fetchedAt, invalidated>>

DeleteStep(key) ==
    /\ values' = Delete(values, key)
    /\ ret' = Ret("Delete", key, FALSE, "", TRUE)
    /\ UNCHANGED <<nonStoreVars, now, fetchedAt, invalidated>>

HasStep(key) ==
    /\ ret' = Ret("Has", key, FALSE, "", Has(values, key))
    /\ UNCHANGED <<nonStoreVars, values, now, fetchedAt, invalidated>>

\* Keys returns the keys in the order of a map iteration: the caller gets their set
KeysStep ==
    /\ ret' = Ret("Keys", "", FALSE, Keys(values), TRUE)
    /\ UNCHANGED <<nonStoreVars, values, now, fetchedAt, invalidated>>

AllStep ==
    /\ ret' = Ret("All", "", FALSE, All(values), TRUE)
    /\ UNCHANGED <<nonStoreVars, values, now, fetchedAt, invalidated>>

LenStep ==
    /\ ret' = Ret("Len", "", FALSE, ValuesLen(values), TRUE)
    /\ UNCHANGED <<nonStoreVars, values, now, fetchedAt, invalidated>>

ShouldResourceBeUpdatedStep(resource) ==
    LET r == ShouldResourceBeUpdated(values, resource, now)
    IN  /\ values' = r.values
        /\ ret' = Ret("ShouldResourceBeUpdated", resource, FALSE, "", r.result)
        /\ UNCHANGED <<nonStoreVars, now, fetchedAt, invalidated>>

UpdateByResourceStep(resource, batch) ==
    /\ values' = UpdateByResource(values, resource, batch, now)
    /\ ret' = Ret("UpdateByResource", resource, FALSE, batch, TRUE)
    /\ fetchedAt' = MapPut(fetchedAt, resource, now)
    /\ invalidated' = invalidated \ {resource}
    /\ UNCHANGED <<nonStoreVars, now>>

UpdateStep(batch) ==
    /\ values' = Update(values, batch)
    /\ ret' = Ret("Update", "", FALSE, "", TRUE)
    /\ UNCHANGED <<nonStoreVars, now, fetchedAt, invalidated>>

Tick ==
    /\ now + TickMinutes <= MaxTime
    /\ now' = now + TickMinutes
    /\ ret' = Ret("Tick", "", FALSE, "", TRUE)
    /\ UNCHANGED <<nonStoreVars, values, fetchedAt, invalidated>>

Next ==
    \/ \E key \in StoreKeys, invalidate \in BOOLEAN : GetStep(key, invalidate)
    \/ \E key \in StoreKeys, value \in StoreVals : SetStep(key, value)
    \/ \E key \in StoreKeys : DeleteStep(key)
    \/ \E key \in StoreKeys : HasStep(key)
    \/ KeysStep
    \/ AllStep
    \/ LenStep
    \/ \E resource \in Resources : ShouldResourceBeUpdatedStep(resource)
    \/ \E resource \in Resources, batch \in Batches : UpdateByResourceStep(resource, batch)
    \/ \E batch \in Batches : UpdateStep(batch)
    \/ Tick

Spec == Init /\ [][Next]_vars

(***************************************************************************)
(* Claims about the attribute store                                        *)
(***************************************************************************)

\* C1: in every reachable store state, UpdateByResource(R, batch) with keys a and b
\* in the batch makes ShouldResourceBeUpdated(R) return false; the invalidating
\* read Get(a) that follows makes ShouldResourceBeUpdated(R) return true, while
\* GetWithInvalidation(b, false) still returns the batch's value of b.
C1_InvalidatingReadMarksOnlyTheResource ==
    \A resource \in Resources, batch \in Batches, a \in StoreKeys, b \in StoreKeys :
        ({a, b} \subseteq DOMAIN batch /\ a # b) =>
            LET v1 == UpdateByResource(values, resource, batch, now)
                v2 == Get(v1, a).values
                rb == GetWithInvalidation(v2, b, FALSE)
            IN  /\ ~ShouldResourceBeUpdated(v1, resource, now).result
                /\ ShouldResourceBeUpdated(v2, resource, now).result
                /\ rb.exists /\ rb.value = batch[b]
                /\ Get(v1, a).exists /\ Get(v1, a).value = batch[a]

\* C1 witness: an invalidating read of a key has just cleared the freshness of its
\* owning resource while a sibling key of the same resource is still cached.
C1_Witness ==
    /\ ret.op = "Get" /\ ret.invalidate /\ ret.ok
    /\ ret.arg \in DOMAIN values.resourceByKey
    /\ values.resourceByKey[ret.arg] \in DOMAIN fetchedAt
    /\ values.resourceByKey[ret.arg] \notin DOMAIN values.lastUpdateByResource
    /\ \E b \in StoreKeys \ {ret.arg} :
          /\ b \in DOMAIN values.data
          /\ b \in DOMAIN values.resourceByKey
          /\ values.resourceByKey[b] = values.resourceByKey[ret.arg]

\* C2: ShouldResourceBeUpdated(R) returns true exactly when R was never passed to
\* UpdateByResource, or at least TTL has passed since its last UpdateByResource, or
\* a key owned by R was read with invalidation since then; and after the call no
\* resource at all keeps a freshness entry that is TTL old or older.
C2_ShouldRefreshIffNoFreshEntry ==
    ret.op = "ShouldResourceBeUpdated" =>
        /\ ret.ok = ( \/ ret.arg \notin DOMAIN fetchedAt
                      \/ now - fetchedAt[ret.arg] >= TTL
                      \/ ret.arg \in invalidated )
        /\ \A r \in DOMAIN values.lastUpdateByResource :
              now - values.lastUpdateByResource[r] < TTL

\* C2 witness: a resource fetched earlier and never invalidated is reported stale
\* once TTL has elapsed, and the sweep of that call evicted another resource too.
C2_Witness ==
    /\ ret.op = "ShouldResourceBeUpdated" /\ ret.ok
    /\ ret.arg \in DOMAIN fetchedAt
    /\ ret.arg \notin invalidated
    /\ now - fetchedAt[ret.arg] >= TTL
    /\ \E r \in Resources \ {ret.arg} :
          /\ r \in DOMAIN fetchedAt /\ r \notin invalidated
          /\ r \notin DOMAIN values.lastUpdateByResource

(***************************************************************************)
(* The translation functions applied to inputs drawn from the tables       *)
(***************************************************************************)
Range(f) == {f[x] : x \in DOMAIN f}

Dimensions == {"mode", "f_rate", "f_dir", "en_hol", "en_streamer", "adv", "spmode_kind",
               "spmode", "stemp"}

\* wire codes and semantic values of the dimension's table, and one string of neither
TranslationInputs(class, dimension) ==
    LET t == Translations(class)
    IN  (IF dimension \in DOMAIN t THEN (DOMAIN t[dimension]) \cup Range(t[dimension]) ELSE {})
        \cup {"zz"}

InitTranslate ==
    /\ StoreInit
    /\ CodecIdle
    /\ FactoryIdle
    /\ \E class \in Classes, dimension \in Dimensions :
         \E input \in TranslationInputs(class, dimension) :
            tr = [stage |-> "input", class |-> class, dimension |-> dimension,
                  input |-> input, output |-> "", back |-> ""]

\* decode: translateValue(dimension, input)
TranslateValueStep ==
    /\ tr.stage = "input"
    /\ tr' = [tr EXCEPT !.stage = "translated",
                        !.output = translateValue(Translations(tr.class), tr.dimension, tr.input)]
    /\ UNCHANGED <<storeVars, codecVars, factoryVars>>

\* encode what the decode returned: reverseTranslateValue(dimension, output)
ReverseTranslateValueStep ==
    /\ tr.stage = "translated"
    /\ \E daikinValue \in reverseTranslateValue(Translations(tr.class), tr.dimension, tr.output) :
         tr' = [tr EXCEPT !.stage = "reversed", !.back = daikinValue]
    /\ UNCHANGED <<storeVars, codecVars, factoryVars>>

\* encode the input itself: reverseTranslateValue(dimension, input)
EncodeStep ==
    /\ tr.stage = "input"
    /\ \E daikinValue \in reverseTranslateValue(Translations(tr.class), tr.dimension, tr.input) :
         tr' = [tr EXCEPT !.stage = "encoded", !.back = daikinValue]
    /\ UNCHANGED <<storeVars, codecVars, factoryVars>>

NextTranslate ==
    \/ TranslateValueStep
    \/ ReverseTranslateValueStep
    \/ EncodeStep

SpecTranslate == InitTranslate /\ [][NextTranslate]_vars

InTable(class, dimension, code) ==
    /\ dimension \in DOMAIN Translations(class)
    /\ code \in DOMAIN Translations(class)[dimension]

\* C10: for every device class and dimension, encoding the decoded value of a wire
\* code that is in the dimension's table returns that wire code, and the table maps
\* no two wire codes to the same semantic value.
C10_EncodeOfDecodeIsIdentity ==
    /\ (tr.stage = "reversed" /\ InTable(tr.class, tr.dimension, tr.input)) => tr.back = tr.input
    /\ tr.stage = "translated" /\ InTable(tr.class, tr.dimension, tr.input) =>
          Cardinality(reverseTranslateValue(Translations(tr.class), tr.dimension, tr.output)) = 1

\* C10 witness: a wire code was decoded to a different semantic value and encoded back.
C10_Witness ==
    /\ tr.stage = "reversed"
    /\ InTable(tr.class, tr.dimension, tr.input)
    /\ tr.output # tr.input
    /\ tr.back = tr.input

\* the value is a semantic value of the dimension's table
IsSemantic(class, dimension, value) ==
    /\ dimension \in DOMAIN Translations(class)
    /\ value \in Range(Translations(class)[dimension])

\* C21: encoding a value that is not a semantic value of the dimension's table, or
\* any value of a dimension without a table, returns the input unchanged; decoding
\* a wire code that is not in the table returns the code unchanged.
C21_UnknownValuesPassThrough ==
    /\ (tr.stage = "encoded" /\ ~IsSemantic(tr.class, tr.dimension, tr.input)) =>
          tr.back = tr.input
    /\ (tr.stage = "translated" /\ ~InTable(tr.class, tr.dimension, tr.input)) =>
          tr.output = tr.input

C21_Witness ==
    /\ tr.stage = "encoded"
    /\ tr.class = "BRP069"
    /\ tr.dimension = "mode"
    /\ tr.input = "zz"
    /\ ~IsSemantic(tr.class, tr.dimension, tr.input)
    /\ tr.back = "zz"

(***************************************************************************)
(* The tree-protocol codec applied to inputs drawn from bounded sets       *)
(***************************************************************************)
MaxAttributes == 2

Endpoints == {"/dsiot/edge/adr_0100.dgc_status", "/dsiot/edge/adr_0200.dgc_status"}

AttributePaths == {<<"e_1002", "e_A002">>, <<"e_1002", "e_3001">>}

DaikinAttributes ==
    [Name : {"p_01", "p_02"}, Value : {"00", "01"}, Path : AttributePaths, To : Endpoints]

SeqsUpTo(S, n) == UNION {[1..k -> S] : k \in 1..n}

SwingModes == {"auto", "cool", "heat", "fan", "dry"}

\* the mode held in the store: absent, off, a mode with swing paths, or one without
StoredModes == {"-", "", "off", "quiet"} \cup SwingModes

\* a flag word of one axis; "-" stands for a register the response does not hold
FlagWords == {"F00000", "000000", "0F0000", "", "-"}

SwingRegisters(mode, vertical, horizontal) ==
    LET pv == Last(swing_settings[mode].vertical)
        ph == Last(swing_settings[mode].horizontal)
    IN  [p \in (IF vertical = "-" THEN {} ELSE {pv}) \cup (IF horizontal = "-" THEN {} ELSE {ph})
            |-> IF p = pv THEN Str(vertical) ELSE Str(horizontal)]

InitEncode ==
    /\ values = NewValues
    /\ response = EmptyMap
    /\ decoded = [op |-> ""]
    /\ request \in SeqsUpTo(DaikinAttributes, MaxAttributes)

InitSwing ==
    /\ request = <<>>
    /\ \E mode \in StoredModes, of \in SwingModes, vertical \in FlagWords, horizontal \in FlagWords :
         /\ values = IF mode = "-" THEN NewValues ELSE ValuesSet(NewValues, "mode", mode)
         /\ response = StatusResponse(
                [NoRegisters EXCEPT !.e_3001 = SwingRegisters(of, vertical, horizontal)])
         /\ decoded = [op |-> "", of |-> of, vertical |-> vertical, horizontal |-> horizontal]

\* responses for the lookup: a full status, a power register without a value, an
\* empty list of result documents, a document without a payload, an error body
FindDocuments ==
    {StatusResponse(RunningCool),
     [responses |-> List(<<
        [fr |-> "/dsiot/edge/adr_0100.dgc_status",
         pc |-> Branch("dgc_status", <<Branch("e_1002", <<
                    Branch("e_A002", <<[pn |-> "p_01", pt |-> "b"]>>),
                    Branch("e_3001", <<Leaf("p_01", Str("0200"))>>)>>)>>)]>>)],
     [responses |-> List(<<>>)],
     [responses |-> List(<<[fr |-> "/dsiot/edge/adr_0100.dgc_status", rsc |-> Str("4004")]>>)],
     [error |-> Str("unsupported")]}

FindPaths ==
    {API_PATHS.power, API_PATHS.mode, API_PATHS.outdoor_temp, API_PATHS.mac_address,
     SubSeq(API_PATHS.power, 1, 4),
     <<"/dsiot/edge/adr_0100.dgc_status", "dgc_status", "e_1002", "e_FFFF", "p_01">>,
     <<"/dsiot/edge/adr_0100.dgc_status", "dgc_status", "e_1002", "e_3001", "p_7F">>,
     <<"/dsiot/edge/adr_0300.dgc_status", "dgc_status", "e_1002", "e_A002", "p_01">>}

InitFind ==
    /\ request = <<>>
    /\ values = NewValues
    /\ response \in FindDocuments
    /\ \E path \in FindPaths : decoded = [op |-> "", path |-> path]

\* the characters of a hex digit, in both cases
HexChars == {At(HexDigits, i) : i \in 1..16} \cup {At(HexUpper, i) : i \in 11..16}

\* wire values of a temperature register: two hex digits, alone or followed by more
TempRaws == {a \o b \o rest : a \in HexChars, b \in HexChars, rest \in {"", "00"}}

\* target temperatures in tenths of a degree: the multiples of 0.5 whose double is a byte
Temperatures == {5 * k : k \in 0..255}

InitTemp ==
    /\ request = <<>>
    /\ values = NewValues
    /\ response = EmptyMap
    /\ \/ \E raw \in TempRaws, divisor \in {1, 2} :
             decoded = [op |-> "", raw |-> raw, divisor |-> divisor]
       \/ \E temperature \in Temperatures : decoded = [op |-> "", temperature |-> temperature]

\* the directions a caller passes as f_dir
SwingDirections == {"off", "vertical", "horizontal", "both"}

\* an adapter whose stored mode has swing registers is asked to set a direction
InitSetSwing ==
    /\ request = <<>>
    /\ response = EmptyMap
    /\ \E mode \in SwingModes, fDir \in SwingDirections :
          /\ values = ValuesSet(NewValues, "mode", mode)
          /\ decoded = [op |-> "", f_dir |-> fDir]

InitCodec ==
    /\ now = 0 /\ ret = NoRet /\ fetchedAt = EmptyMap /\ invalidated = {}
    /\ tr = NoTr
    /\ FactoryIdle
    /\ payload = EmptyMap
    /\ (InitEncode \/ InitSwing \/ InitFind \/ InitTemp \/ InitSetSwing)

SerializeStep ==
    /\ payload = EmptyMap
    /\ request # <<>>
    /\ payload' = Serialize(request)
    /\ UNCHANGED <<storeVars, tr, factoryVars, request, response, decoded>>

GetSwingStateStep ==
    /\ decoded.op = ""
    /\ response # EmptyMap
    /\ LET r == getSwingState(values, response)
       IN  /\ values' = r.values
           /\ decoded' = [decoded EXCEPT !.op = "getSwingState"] @@ [state |-> r.state]
    /\ UNCHANGED <<now, ret, fetchedAt, invalidated, tr, factoryVars, request, payload, response>>

FindValueByPNStep ==
    /\ decoded.op = ""
    /\ "path" \in DOMAIN decoded
    /\ \E r \in {findByPath(response, decoded.path)} :
          decoded' = [op |-> "findValueByPN", path |-> decoded.path, err |-> r.err,
                      value |-> r.value]
    /\ UNCHANGED <<storeVars, tr, factoryVars, request, payload, response>>

HexToTempStep ==
    /\ decoded.op \in {"", "tempToHex"}
    /\ "raw" \in DOMAIN decoded
    /\ decoded' = [op |-> "hexToTemp", temp |-> hexToTemp(decoded.raw, decoded.divisor)] @@ decoded
    /\ UNCHANGED <<storeVars, tr, factoryVars, request, payload, response>>

\* the target temperature as handleTemperatureSetting encodes it
TempToHexStep ==
    /\ decoded.op = ""
    /\ "temperature" \in DOMAIN decoded
    /\ decoded' = [op |-> "tempToHex", temperature |-> decoded.temperature,
                   raw |-> tempToHex(decoded.temperature, 2), divisor |-> 2]
    /\ UNCHANGED <<storeVars, tr, factoryVars, request, payload, response>>

\* handleSwingSetting builds the two writes; the device stores them, and its next
\* status response holds the written flag words
HandleSwingSettingStep ==
    /\ decoded.op = ""
    /\ "f_dir" \in DOMAIN decoded
    /\ \E st \in {handleSwingSetting([values |-> values, requests |-> <<>>],
                                      "f_dir" :> decoded.f_dir)} :
          /\ values' = st.values
          /\ decoded' = [op |-> "handleSwingSetting", f_dir |-> decoded.f_dir,
                         requests |-> st.requests]
          /\ response' = StatusResponse(
                [NoRegisters EXCEPT !.e_3001 =
                    [pn \in {st.requests[i].Name : i \in 1..Len(st.requests)} |->
                        Str(st.requests[CHOOSE i \in 1..Len(st.requests) :
                                           st.requests[i].Name = pn].Value)]])
    /\ UNCHANGED <<now, ret, fetchedAt, invalidated, tr, factoryVars, request, payload>>

\* getSwingState on the status response that followed the command
GetSwingStateAfterSetStep ==
    /\ decoded.op = "handleSwingSetting"
    /\ \E r \in {getSwingState(values, response)} :
          /\ values' = r.values
          /\ decoded' = [op |-> "getSwingState after Set", f_dir |-> decoded.f_dir,
                         requests |-> decoded.requests, state |-> r.state]
    /\ UNCHANGED <<now, ret, fetchedAt, invalidated, tr, factoryVars, request, payload, response>>

NextCodec ==
    \/ HandleSwingSettingStep
    \/ GetSwingStateAfterSetStep
    \/ SerializeStep
    \/ GetSwingStateStep
    \/ FindValueByPNStep
    \/ HexToTempStep
    \/ TempToHexStep

SpecCodec == InitCodec /\ [][NextCodec]_vars

\* the child lists reached from children by following branches named by path
RECURSIVE ChainEnds(_, _)
ChainEnds(children, path) ==
    IF path = <<>> THEN {<<children>>}
    ELSE UNION {
            {<<i>> \o e : e \in ChainEnds(children[i].pch, Tail(path))} :
            i \in {j \in 1..Len(children) :
                     "pch" \in DOMAIN children[j] /\ children[j].pn = Head(path)}}

LeavesOf(children) ==
    {children[i] : i \in {j \in 1..Len(children) : "pv" \in DOMAIN children[j]}}

\* C8: encoding two attribute writes that share the endpoint and the path gives a
\* payload with exactly one top-level entry for the endpoint, in which the chain
\* of branches named by the path exists exactly once and holds both leaves.
C8_SharedPrefixIsOneEntryWithBothLeaves ==
    (/\ payload # EmptyMap
     /\ Len(request) = 2
     /\ request[1].To = request[2].To
     /\ request[1].Path = request[2].Path) =>
        LET entries == {i \in 1..Len(payload.requests) : payload.requests[i].to = request[1].To}
        IN  /\ Cardinality(entries) = 1
            /\ \A i \in entries :
                 LET ends == ChainEnds(payload.requests[i].pc.pch, request[1].Path)
                 IN  /\ Cardinality(ends) = 1
                     /\ \A e \in ends :
                          {Format(request[1]), Format(request[2])} \subseteq LeavesOf(e[Len(e)])

\* the mode the store holds when getSwingState is called ("" when absent)
StoredMode == MapGet(values.data, "mode")

AxisOn(flag) == flag # "-" /\ Len(flag) > 0 /\ Head(flag) = "F"

\* C9: for a stored mode that has swing paths and a response holding both flag words
\* of that mode, getSwingState returns "vertical" for ("F00000", "000000"), "both"
\* for ("F00000", "F00000") and "off" for ("000000", "000000"); whatever the input it
\* returns one of off, vertical, horizontal, both, and "both" only when the flag
\* words of both axes start with F.
C9_SwingDecode ==
    decoded.op = "getSwingState" =>
        /\ decoded.state \in {"off", "vertical", "horizontal", "both"}
        /\ decoded.state = "both" =>
              /\ StoredMode = decoded.of
              /\ AxisOn(decoded.vertical) /\ AxisOn(decoded.horizontal)
        /\ (StoredMode \in SwingModes /\ StoredMode = decoded.of) =>
              /\ (decoded.vertical = "F00000" /\ decoded.horizontal = "000000")
                    => decoded.state = "vertical"
              /\ (decoded.vertical = "F00000" /\ decoded.horizontal = "F00000")
                    => decoded.state = "both"
              /\ (decoded.vertical = "000000" /\ decoded.horizontal = "000000")
                    => decoded.state = "off"

\* C9 witness: the flag words F00000 (vertical) and 000000 (horizontal) of the
\* stored mode were decoded to "vertical".
C9_Witness ==
    /\ decoded.op = "getSwingState"
    /\ StoredMode \in SwingModes /\ StoredMode = decoded.of
    /\ decoded.vertical = "F00000" /\ decoded.horizontal = "000000"
    /\ decoded.state = "vertical"

\* the nodes a path of names leads to in a list of nodes, whichever child of a name
\* is taken at each level
RECURSIVE NodesAt(_, _)
NodesAt(nodes, names) ==
    LET named == {nodes[i] : i \in {j \in 1..Len(nodes) :
                                      "pn" \in DOMAIN nodes[j] /\ nodes[j].pn = Head(names)}}
    IN  IF Len(names) = 1 THEN named
        ELSE UNION {NodesAt(n.pch, Tail(names)) : n \in {m \in named : "pch" \in DOMAIN m}}

\* the nodes the requested (endpoint, path) names in a response
Named(data, path) ==
    IF "responses" \notin DOMAIN data \/ data.responses.t # "list" THEN {}
    ELSE UNION {NodesAt(<<doc.pc>>, Tail(path)) :
                   doc \in {data.responses.l[i] : i \in {j \in 1..Len(data.responses.l) :
                                /\ "fr" \in DOMAIN data.responses.l[j]
                                /\ data.responses.l[j].fr = Head(path)
                                /\ "pc" \in DOMAIN data.responses.l[j]}}}

\* C16: findValueByPN returns "not found" when the endpoint or a name of the path
\* is absent from the response, and whenever it returns without error the value is
\* the value of a node the path names, never nil.
C16_LookupNeverYieldsNilWithoutError ==
    decoded.op = "findValueByPN" =>
        /\ Named(response, decoded.path) = {} => decoded.err
        /\ ~decoded.err =>
              /\ decoded.value # Nil
              /\ \E n \in Named(response, decoded.path) :
                    "pv" \in DOMAIN n /\ n.pv = decoded.value


(***************************************************************************)
(* CreateDaikinDevice called with every combination of credentials on      *)
(* every target                                                            *)
(***************************************************************************)
DeviceIDs == {"daikin.lan", "daikin.lan:8080"}

Calls == [deviceID : DeviceIDs, Password : {"", "pw"}, Key : {"", "key"}, UUID : {""}]

InitFactory ==
    /\ StoreInit
    /\ tr = NoTr
    /\ CodecIdle
    /\ config \in Calls
    /\ target \in Targets
    /\ pc = "start"
    /\ device = NoDevice
    /\ err = ""
    /\ sent = <<>>
    /\ tried = <<>>

\* the adapter without its store and its request log
Object(d) == [f \in (DOMAIN d) \ {"values", "sent"} |-> d[f]]

\* return device, nil or return nil, err
Return(r) ==
    /\ pc' = "done"
    /\ sent' = sent \o r.d.sent
    /\ err' = r.err
    /\ device' = IF r.err = "" THEN Object(r.d) ELSE NoDevice
    /\ values' = IF r.err = "" THEN r.d.values ELSE NewValues

\* a failed probe: its adapter is dropped and the next probe is due
Advance(r, next) ==
    /\ pc' = next
    /\ sent' = sent \o r.d.sent
    /\ UNCHANGED <<err, device, values>>

CreateSkyFiStep ==
    /\ pc = "start"
    /\ config.Password # ""
    /\ \E r \in createSkyFi(target, config, now) : Return(r)
    /\ UNCHANGED <<now, ret, fetchedAt, invalidated, tr, codecVars, config, target, tried>>

CreateBRP072CStep ==
    /\ pc = "start"
    /\ config.Password = ""
    /\ config.Key # ""
    /\ \E r \in {createBRP072C(target, config, now)} : Return(r)
    /\ UNCHANGED <<now, ret, fetchedAt, invalidated, tr, codecVars, config, target, tried>>

ProbeBRP084Step ==
    /\ pc = "start"
    /\ config.Password = ""
    /\ config.Key = ""
    /\ \E r \in {probeBRP084(target, config)} :
          /\ IF r.err = "" THEN Return(r) ELSE Advance(r, "BRP069")
          /\ tried' = Append(tried, [probe |-> "BRP084", err |-> r.err])
    /\ UNCHANGED <<now, ret, fetchedAt, invalidated, tr, codecVars, config, target>>

\* a plausible slip: the error of the failed legacy probe is returned to the caller
ProbeBRP069StepReturning ==
    /\ pc = "BRP069"
    /\ \E r \in {probeBRP069(target, config, now)} :
          /\ Return(r)
          /\ tried' = Append(tried, [probe |-> "BRP069", err |-> r.err])
    /\ UNCHANGED <<now, ret, fetchedAt, invalidated, tr, codecVars, config, target>>

ProbeBRP069Step ==
    /\ pc = "BRP069"
    /\ \E r \in {probeBRP069(target, config, now)} :
          /\ IF r.err = "" THEN Return(r) ELSE Advance(r, "AirBase")
          /\ tried' = Append(tried, [probe |-> "BRP069", err |-> r.err])
    /\ UNCHANGED <<now, ret, fetchedAt, invalidated, tr, codecVars, config, target>>

CreateAirBaseStep ==
    /\ pc = "AirBase"
    /\ \E r \in {createAirBase(target, config, now)} :
          /\ Return(r)
          /\ tried' = Append(tried, [probe |-> "AirBase", err |-> r.err])
    /\ UNCHANGED <<now, ret, fetchedAt, invalidated, tr, codecVars, config, target>>

\* GetMode() called on the adapter that was returned
GetModeStep ==
    /\ pc = "done"
    /\ device # NoDevice
    /\ ret = NoRet
    /\ \E g \in {IF device.class = "BRP084" THEN GetMode_BRP084(values)
                 ELSE GetMode(device.Translations, values)} :
          /\ values' = g.values
          /\ ret' = Ret("GetMode", "", TRUE, g.mode, TRUE)
    /\ UNCHANGED <<now, fetchedAt, invalidated, tr, codecVars, factoryVars>>

NextFactory ==
    \/ CreateSkyFiStep
    \/ CreateBRP072CStep
    \/ ProbeBRP084Step
    \/ ProbeBRP069Step
    \/ CreateAirBaseStep
    \/ GetModeStep

SpecFactory == InitFactory /\ [][NextFactory]_vars

(***************************************************************************)
(* What the factory sent, by the protocol a request belongs to             *)
(***************************************************************************)
NoCredentials == config.Password = "" /\ config.Key = ""

KeyOnly == config.Password = "" /\ config.Key # ""

Paths == [i \in 1..Len(sent) |-> PathOf(sent[i].url)]

IsTreeRequest(req) == req.method = "POST" /\ PathOf(req.url) = "dsiot/multireq"

IsLegacyRequest(req) == req.method = "GET" /\ PathOf(req.url) \in Range(HTTPResources_BRP069)

IsBasicRequest(req) ==
    req.method = "GET" /\ PathOf(req.url) \in {"skyfi/" \o r : r \in Range(HTTPResources_AirBase)}

IsSkyFiRequest(req) ==
    /\ req.method = "GET"
    /\ PathOf(req.url) \in Range(HTTPResources_SkyFi)
    /\ req.query = ("pass" :> config.Password)

IsSecureRequest(req) ==
    /\ req.method = "GET"
    /\ SubSeq(req.url, 1, 8) = "https://"
    /\ "X-Daikin-uuid" \in DOMAIN req.headers

ProbeOrder == <<"BRP084", "BRP069", "AirBase">>

\* the place in ProbeOrder of the probe a request belongs to, 0 for none
RequestProbe(req) ==
    CASE IsTreeRequest(req) -> 1
      [] IsLegacyRequest(req) -> 2
      [] IsBasicRequest(req) -> 3
      [] OTHER -> 0

\* the target answers the combined status query with a document that has responses
AnswersTreeProbe ==
    LET answer == Do(target, NewRequest("POST", "http://" \o config.deviceID \o "/dsiot/multireq",
                                        EmptyMap, EmptyMap, StatusQuery))
    IN  /\ answer.status = 200
        /\ answer.json # Undecodable
        /\ IsObject(answer.json)
        /\ "responses" \in DOMAIN answer.json
        /\ answer.json.responses # Nil

\* C3: with a password (with or without a key) the factory runs no probe and sends
\* only the two password-carrying requests of the SkyFi adapter, and what it returns
\* is the SkyFi adapter with no error, whatever the target answers.
C3_PasswordYieldsSkyFi ==
    config.Password # "" =>
        /\ pc \in {"start", "done"}
        /\ tried = <<>>
        /\ \A i \in 1..Len(sent) : IsSkyFiRequest(sent[i]) /\ RequestProbe(sent[i]) = 0
        /\ pc = "done" => /\ err = ""
                          /\ device.class = "SkyFi"
                          /\ device.Password = config.Password
                          /\ Paths = HTTPResources_SkyFi

C3_Witness ==
    /\ pc = "done"
    /\ config.Password # ""
    /\ config.Key # ""
    /\ target = "silent"
    /\ device.class = "SkyFi"
    /\ err = ""
    /\ Len(sent) = 2

\* C4: without credentials the probes run in the order BRP084, BRP069, AirBase; each
\* probe but the last attempted has failed, a probe that succeeded is the last one and
\* its adapter is what the factory returns; the requests sent follow the same order and
\* belong to attempted probes only; a target that answers the tree-protocol probe
\* receives tree-protocol requests only.
C4_ProbesInFixedOrder ==
    NoCredentials =>
        /\ Len(tried) <= Len(ProbeOrder)
        /\ pc = "start" => tried = <<>> /\ sent = <<>>
        /\ pc = "BRP069" => Len(tried) = 1
        /\ pc = "AirBase" => Len(tried) = 2
        /\ \A i \in 1..Len(tried) :
              /\ tried[i].probe = ProbeOrder[i]
              /\ i < Len(tried) => tried[i].err # ""
              /\ tried[i].err = "" => /\ i = Len(tried)
                                      /\ pc = "done"
                                      /\ err = ""
                                      /\ device.class = tried[i].probe
        /\ \A i \in 1..Len(sent) : RequestProbe(sent[i]) \in 1..Len(tried)
        /\ \A i, j \in 1..Len(sent) : i < j => RequestProbe(sent[i]) <= RequestProbe(sent[j])
        /\ AnswersTreeProbe => \A i \in 1..Len(sent) : IsTreeRequest(sent[i])

C4_Witness ==
    /\ NoCredentials
    /\ AnswersTreeProbe
    /\ pc = "done"
    /\ tried = <<[probe |-> "BRP084", err |-> ""]>>
    /\ device.class = "BRP084"
    /\ Len(sent) = 1
    /\ IsTreeRequest(sent[1])

\* the registration request came back as an error: no answer, a status other than 200
\* and 404, or a body without ret
RegistrationFailed ==
    LET answer == Do(target, sent[1])
    IN  /\ answer.status # 404
        /\ \/ answer.status # 200
           \/ answer.body = ""
           \/ parseResponse(answer.body).err # ""

\* C5: with a key and no password the factory runs no probe and sends requests of the
\* secure-token adapter only; the first is the terminal registration carrying the key;
\* when it fails the factory returns the error after that one request, otherwise it
\* returns the BRP072C adapter after the clock request and every status resource.
C5_KeyYieldsRegisteredBRP072C ==
    KeyOnly =>
        /\ pc \in {"start", "done"}
        /\ tried = <<>>
        /\ \A i \in 1..Len(sent) : IsSecureRequest(sent[i]) /\ RequestProbe(sent[i]) \in {0, 2}
        /\ pc = "done" =>
              /\ Paths[1] = "common/register_terminal"
              /\ sent[1].query = ("key" :> config.Key)
              /\ \A i \in 2..Len(sent) : Paths[i] # "common/register_terminal"
              /\ IF RegistrationFailed
                 THEN err # "" /\ device = NoDevice /\ Len(sent) = 1
                 ELSE /\ err = ""
                      /\ device.class = "BRP072C"
                      /\ Paths = <<"common/register_terminal", "common/get_datetime">>
                                 \o HTTPResources_BRP069

C5_Witness ==
    /\ KeyOnly
    /\ pc = "done"
    /\ target = "secure"
    /\ ~RegistrationFailed
    /\ device.class = "BRP072C"
    /\ Len(sent) = 15
    /\ MapGet(values.data, "mode") = "3"

RecognizedModes == Range(Translations_AirBase.mode) \cup {"off"}

\* C6: without credentials, after the fallback probe, an adapter is returned only with
\* a recognized operating mode, and a target that answered no request with success
\* yields an error and no adapter.
C6_FallbackNeedsRecognizedMode ==
    (NoCredentials /\ pc = "done" /\ Len(tried) = 3) =>
        /\ err = "" => /\ device.class = "AirBase"
                       /\ GetMode(Translations_AirBase, values).mode \in RecognizedModes
        /\ (\A i \in 1..Len(sent) : Do(target, sent[i]).status # 200) =>
              err # "" /\ device = NoDevice

\* the status document of the target decodes to no operating mode
ModeUndecoded ==
    /\ target \in TreeTargets
    /\ ~Has(decodeStatus(NewValues, TreeDocument(target)), "mode")

\* C7: the adapter returned after a tree-protocol probe that decoded no operating mode
\* has mode "off" and pow "0" in its store, and GetMode() on it is "off".
C7_UndecodedModeIsSeededOff ==
    (pc = "done" /\ device.class = "BRP084" /\ ModeUndecoded) =>
        /\ MapGet(values.data, "mode") = "off"
        /\ MapGet(values.data, "pow") = "0"
        /\ ret.op = "GetMode" => ret.value = "off"

\* every path UpdateStatus looks up in the status response
StatusPaths ==
    {API_PATHS[k] : k \in DOMAIN API_PATHS}
    \cup {temp_settings[m] : m \in DOMAIN temp_settings}
    \cup {fan_settings[m] : m \in DOMAIN fan_settings}
    \cup {swing_settings[m].vertical : m \in DOMAIN swing_settings}
    \cup {swing_settings[m].horizontal : m \in DOMAIN swing_settings}

\* the target answers the combined status query with a document in which at least
\* one of the attributes can be found
AttributeDecoded ==
    /\ AnswersTreeProbe
    /\ \E path \in StatusPaths : ~findByPath(TreeDocument(target), path).err

\* C17: the tree-protocol probe succeeds exactly when the status query returned a
\* response from which at least one attribute was decoded; otherwise the probe
\* fails and the legacy probe is next.
C17_TreeProbeNeedsADecodedAttribute ==
    (NoCredentials /\ tried # <<>>) =>
        /\ tried[1].probe = "BRP084"
        /\ tried[1].err = "" <=> AttributeDecoded
        /\ tried[1].err # "" =>
              \/ pc = "BRP069" /\ Len(tried) = 1
              \/ Len(tried) >= 2 /\ tried[2].probe = "BRP069"


\* the places in sent of the requests of the legacy probe
LegacySent == {i \in 1..Len(sent) : IsLegacyRequest(sent[i])}

\* what common/basic_info of the target parses to
BasicInfo ==
    getResource(target, NewDaikinBRP069(extractIPPort(config.deviceID).ip),
                "common/basic_info", EmptyMap)

BasicInfoParsed == BasicInfo.err = "" /\ BasicInfo.data # EmptyMap

\* C18: the legacy probe first fetches common/basic_info and nothing else; it
\* succeeds exactly when that parsed to at least one attribute, and then every
\* other resource of the adapter was requested; otherwise common/basic_info is the
\* only legacy request and the fallback adapter is next.
C18_LegacyProbeClassifiesByBasicInfo ==
    (NoCredentials /\ Len(tried) >= 2) =>
        /\ tried[2].probe = "BRP069"
        /\ LegacySent # {}
        /\ PathOf(sent[MinOf(LegacySent)].url) = "common/basic_info"
        /\ tried[2].err = "" <=> BasicInfoParsed
        /\ tried[2].err = "" =>
              /\ pc = "done" /\ device.class = "BRP069"
              /\ \A resource \in Range(Tail(HTTPResources_BRP069)) :
                    \E i \in LegacySent : i > MinOf(LegacySent) /\ PathOf(sent[i].url) = resource
        /\ tried[2].err # "" =>
              /\ Cardinality(LegacySent) = 1
              /\ \/ pc = "AirBase" /\ Len(tried) = 2
                 \/ Len(tried) = 3 /\ tried[3].probe = "AirBase"

C18_Witness ==
    /\ NoCredentials
    /\ target = "legacy"
    /\ pc = "done"
    /\ Len(tried) = 2
    /\ tried[2] = [probe |-> "BRP069", err |-> ""]
    /\ device.class = "BRP069"
    /\ Cardinality(LegacySent) > 1
    /\ MapGet(values.data, "mac") = "A1B2C3"

\* the probe refused a target whose basic_info parsed to nothing
C18_WitnessRefused ==
    /\ NoCredentials
    /\ target = "legacy_ng"
    /\ Len(tried) = 2
    /\ tried[2] = [probe |-> "BRP069", err |-> "empty values from BRP069 device"]
    /\ pc = "AirBase"
    /\ Cardinality(LegacySent) = 1


\* the probe that follows a probe in the order, "done" after the last
NextProbe(i) == IF i < Len(ProbeOrder) THEN ProbeOrder[i + 1] ELSE "done"

\* C19: without credentials a failed probe other than the last returns nothing to
\* the caller and the next probe is due or has run; the factory returns an error
\* only after the fallback probe, the last one, has failed, and it is that error.
C19_OnlyTheFallbackFailureIsReturned ==
    NoCredentials =>
        /\ \A i \in 1..Len(tried) :
              (tried[i].err # "" /\ i < Len(ProbeOrder)) =>
                 \/ i = Len(tried) /\ pc = NextProbe(i) /\ err = "" /\ device = NoDevice
                 \/ i < Len(tried) /\ tried[i + 1].probe = NextProbe(i)
        /\ err # "" =>
              /\ pc = "done"
              /\ device = NoDevice
              /\ Len(tried) = Len(ProbeOrder)
              /\ \A i \in 1..Len(tried) : tried[i].err # ""
              /\ err = tried[Len(tried)].err

C19_Witness ==
    /\ NoCredentials
    /\ target = "airbase_nomode"
    /\ pc = "done"
    /\ Len(tried) = 3
    /\ tried[1] = [probe |-> "BRP084", err |-> "not a BRP084 device"]
    /\ tried[2].probe = "BRP069" /\ tried[2].err # ""
    /\ tried[3] = [probe |-> "AirBase", err |-> "error creating device, is not supported"]
    /\ err = "error creating device, is not supported"
    /\ device = NoDevice

\* failed probes of every kind were passed over: no answer, a status other than 200,
\* a body that does not decode, a body that parses to nothing
C19_WitnessPassedOver ==
    /\ NoCredentials
    /\ target \in {"silent", "error500", "webserver", "legacy_ng"}
    /\ Len(tried) = 3
    /\ tried[1].err # "" /\ tried[2].err # ""
    /\ err = tried[3].err


(***************************************************************************)
(* An adapter in the hands of a caller: one call on an adapter of any      *)
(* class, with a store the caller or an earlier refresh has filled,        *)
(* against any target                                                      *)
(***************************************************************************)
AdapterClasses == {"Base", "BRP069", "BRP072C", "BRP084", "AirBase", "SkyFi"}

\* tables a caller assigns to the Translations field of a bare BaseAppliance
CallerTables ==
    {EmptyMap,
     [mode |-> ("3" :> "cool")],
     [mode |-> ("3" :> "heat" @@ "0" :> "cool")],
     [pow |-> ("0" :> "on"), mode |-> ("3" :> "off")]}

NewAdapter(class) ==
    CASE class = "BRP069" -> NewDaikinBRP069("daikin.lan")
      [] class = "BRP072C" -> NewDaikinBRP072C("daikin.lan", "key", "")
      [] class = "BRP084" -> NewDaikinBRP084("daikin.lan")
      [] class = "AirBase" -> NewDaikinAirBase("daikin.lan")
      [] class = "SkyFi" -> NewDaikinSkyFi("daikin.lan", "pw")
      [] OTHER -> NewBaseAppliance("daikin.lan")

\* "-" stands for a key the store does not hold
StoredPowers == {"-", "0", "1"}

AdapterModes == {"-", "3", "cool"}

Seeded(pow, mode) ==
    LET withPow == IF pow = "-" THEN NewValues ELSE ValuesSet(NewValues, "pow", pow)
    IN  IF mode = "-" THEN withPow ELSE ValuesSet(withPow, "mode", mode)

InitAdapter ==
    /\ now = 0 /\ ret = NoRet /\ fetchedAt = EmptyMap /\ invalidated = {}
    /\ tr = NoTr
    /\ CodecIdle
    /\ config = [deviceID |-> "", Password |-> "", Key |-> "", UUID |-> ""]
    /\ tried = <<>>
    /\ target \in Targets
    /\ pc = "ready"
    /\ err = ""
    /\ sent = <<>>
    /\ \E class \in AdapterClasses, table \in CallerTables :
          device = IF class = "Base"
                   THEN [Object(NewAdapter(class)) EXCEPT !.Translations = table]
                   ELSE Object(NewAdapter(class))
    /\ \E pow \in StoredPowers, mode \in AdapterModes : values = Seeded(pow, mode)

\* the adapter a call works on: the object with its store
Adapter == device @@ [values |-> values, sent |-> <<>>]

\* what a call leaves: the store, the requests it sent, its error and its result
Called(op, arg, r, value) ==
    /\ pc' = "called"
    /\ values' = r.d.values
    /\ sent' = sent \o r.d.sent
    /\ err' = r.err
    /\ ret' = Ret(op, arg, FALSE, value, r.err = "")

GetModeCall ==
    /\ pc = "ready"
    /\ \E g \in {IF device.class = "BRP084" THEN GetMode_BRP084(values)
                 ELSE GetMode(device.Translations, values)} :
          Called("GetMode", "", [d |-> [values |-> g.values, sent |-> <<>>], err |-> ""], g.mode)
    /\ UNCHANGED <<now, fetchedAt, invalidated, tr, codecVars, config, target, device, tried>>

GetPowerStateCall ==
    /\ pc = "ready"
    /\ \E g \in {IF device.class = "BRP084" THEN GetPowerState_BRP084(values)
                 ELSE GetPowerState(values)} :
          Called("GetPowerState", "", [d |-> [values |-> g.values, sent |-> <<>>], err |-> ""],
                 g.state)
    /\ UNCHANGED <<now, fetchedAt, invalidated, tr, codecVars, config, target, device, tried>>

\* what a caller passes as the mode or the value of a special command
SpecialModes == {"on", "off", "1", "maybe"}

SetHolidayCall ==
    /\ pc = "ready"
    /\ \E mode \in SpecialModes :
          \E r \in SetHoliday(target, Adapter, mode) : Called("SetHoliday", mode, r, "")
    /\ UNCHANGED <<now, fetchedAt, invalidated, tr, codecVars, config, target, device, tried>>

SetStreamerCall ==
    /\ pc = "ready"
    /\ \E mode \in SpecialModes :
          \E r \in SetStreamer(target, Adapter, mode) : Called("SetStreamer", mode, r, "")
    /\ UNCHANGED <<now, fetchedAt, invalidated, tr, codecVars, config, target, device, tried>>

SetAdvancedModeCall ==
    /\ pc = "ready"
    /\ \E mode \in {"powerful", "econo"}, value \in SpecialModes :
          \E r \in SetAdvancedMode(target, Adapter, mode, value) :
             Called("SetAdvancedMode", mode \o "=" \o value, r, "")
    /\ UNCHANGED <<now, fetchedAt, invalidated, tr, codecVars, config, target, device, tried>>

\* what a caller passes to Set
SettingsInputs ==
    {EmptyMap, "pow" :> "0", "mode" :> "off", "mode" :> "cool", "stemp" :> "24.5",
     "mode" :> "cool" @@ "stemp" :> "24.0", "f_rate" :> "auto" @@ "f_dir" :> "off",
     "en_hol" :> "1", "stemp" :> "24.5" @@ "en_hol" :> "1"}

\* the text of a settings map, for the record of the call
SettingsText(settings) ==
    JoinStrings([i \in 1..Len(SortedKeys(DOMAIN settings)) |->
                    SortedKeys(DOMAIN settings)[i] \o "=" \o settings[SortedKeys(DOMAIN settings)[i]]], ",")

\* Set of the adapter's class
Set(tg, d, settings, t) ==
    CASE IsLegacy(d) -> Set_BRP069(tg, d, settings, t)
      [] d.class = "AirBase" -> Set_AirBase(tg, d, settings, t)
      [] d.class = "SkyFi" -> Set_SkyFi(tg, d, settings, t)
      [] d.class = "BRP084" -> Set_BRP084(tg, d, settings)
      [] OTHER -> {[d |-> d, err |-> "Set method must be implemented by specific device type"]}

SetCall ==
    /\ pc = "ready"
    /\ \E settings \in SettingsInputs :
          \E r \in Set(target, Adapter, settings, now) :
             Called("Set", SettingsText(settings), r, "")
    /\ UNCHANGED <<now, fetchedAt, invalidated, tr, codecVars, config, target, device, tried>>

\* UpdateStatus of the adapter's class
UpdateStatus(tg, d, t) ==
    CASE IsLegacy(d) -> {UpdateStatus_BRP069(tg, d, t)}
      [] d.class = "AirBase" -> {UpdateStatus_AirBase(tg, d, t)}
      [] d.class = "SkyFi" -> UpdateStatus_SkyFi(tg, d, t)
      [] d.class = "BRP084" -> {UpdateStatus_BRP084(tg, d)}
      [] OTHER -> {[d |-> d,
                    err |-> "UpdateStatus method must be implemented by specific device type"]}

UpdateStatusCall ==
    /\ pc = "ready"
    /\ \E r \in UpdateStatus(target, Adapter, now) : Called("UpdateStatus", "", r, "")
    /\ UNCHANGED <<now, fetchedAt, invalidated, tr, codecVars, config, target, device, tried>>

\* Init of the adapter's class
Init_Appliance(tg, d, t) ==
    CASE d.class = "BRP069" -> {Init_BRP069(tg, d, t)}
      [] d.class = "BRP072C" -> {Init_BRP072C(tg, d, t)}
      [] d.class = "AirBase" -> {Init_AirBase(tg, d, t)}
      [] d.class = "SkyFi" -> Init_SkyFi(tg, d, t)
      [] d.class = "BRP084" -> {UpdateStatus_BRP084(tg, d)}
      [] OTHER -> {[d |-> d, err |-> "Init method must be implemented by specific device type"]}

InitCall ==
    /\ pc = "ready"
    /\ \E r \in Init_Appliance(target, Adapter, now) : Called("Init", "", r, "")
    /\ UNCHANGED <<now, fetchedAt, invalidated, tr, codecVars, config, target, device, tried>>

\* a plausible slip: holiday mode is supported when the device reports it enabled
SupportsAwayModeWhenEnabled(v) == MapGet(v.data, "en_hol") = "1"

SupportsFanRate(v) == Has(v, "f_rate")

SupportsSwingMode(v) == Has(v, "f_dir")

SupportsAwayMode(v) == Has(v, "en_hol")

SupportsAdvancedModes(v) == Has(v, "adv")

SupportsEnergyConsumption_BRP084(v) == Has(v, "datas") \/ Has(v, "today_runtime")

\* the five capability answers of the adapter; the tree-protocol adapter overrides
\* three of them
Supports(d, v) ==
    [FanRate |-> SupportsFanRate(v),
     SwingMode |-> SupportsSwingMode(v),
     AwayMode |-> SupportsAwayMode(v),
     AdvancedModes |-> SupportsAdvancedModes(v),
     EnergyConsumption |-> IF d.class = "BRP084" THEN SupportsEnergyConsumption_BRP084(v)
                           ELSE SupportsEnergyConsumption(v)]

\* the capability methods called on a new adapter or after another call
SupportsCall ==
    /\ pc \in {"ready", "called"}
    /\ pc' = "sensed"
    /\ ret' = Ret("Supports", ret.op, FALSE, Supports(device, values), TRUE)
    /\ UNCHANGED <<values, now, fetchedAt, invalidated, tr, codecVars, config, target, device,
                   err, sent, tried>>

NextAdapter ==
    \/ SupportsCall
    \/ InitCall
    \/ GetModeCall
    \/ GetPowerStateCall
    \/ SetHolidayCall
    \/ SetStreamerCall
    \/ SetAdvancedModeCall
    \/ SetCall
    \/ UpdateStatusCall

SpecAdapter == InitAdapter /\ [][NextAdapter]_vars

\* C11: GetMode() on a store with pow "1" and mode "3" under a mode table that maps
\* "3" to "cool" returns "cool"; on a store with pow "0" it returns "off" whatever the
\* stored mode and the table are.
C11_GetModeReadsPowerThenMode ==
    ret.op = "GetMode" =>
        /\ MapGet(values.data, "pow") = "0" => ret.value = "off"
        /\ ( /\ MapGet(values.data, "pow") = "1"
             /\ MapGet(values.data, "mode") = "3"
             /\ "mode" \in DOMAIN device.Translations
             /\ MapGet(device.Translations["mode"], "3") = "cool" ) => ret.value = "cool"

C11_Witness ==
    /\ ret.op = "GetMode"
    /\ device.class = "Base"
    /\ device.Translations = [mode |-> ("3" :> "cool")]
    /\ values.data = ("pow" :> "1" @@ "mode" :> "3")
    /\ ret.value = "cool"

LackingClasses == {"Base", "BRP084", "AirBase", "SkyFi"}

\* C12: SetStreamer, SetHoliday and SetAdvancedMode on the base adapter, the
\* tree-protocol adapter, AirBase and SkyFi return an error and send no request.
C12_UnsupportedOperationIsAnError ==
    (ret.op \in {"SetStreamer", "SetHoliday", "SetAdvancedMode"} /\ device.class \in LackingClasses)
        => /\ err # ""
           /\ ~ret.ok
           /\ sent = <<>>

C12_Witness ==
    /\ ret.op = "SetStreamer"
    /\ ret.arg = "on"
    /\ device.class = "AirBase"
    /\ target = "airbase"
    /\ err = "SetStreamer not supported by this device type"
    /\ sent = <<>>

\* a request that commands the device, and one that commands power off
IsCommand(req) ==
    \/ PathOf(req.url) \in {"aircon/set_control_info", "skyfi/aircon/set_control_info", "set.cgi"}
    \/ /\ req.method = "POST"
       /\ \E i \in 1..Len(req.body.requests) : req.body.requests[i].op = 3

\* the leaves of a payload tree
RECURSIVE TreeLeaves(_)
TreeLeaves(tree) ==
    IF "pch" \in DOMAIN tree THEN UNION {TreeLeaves(tree.pch[i]) : i \in 1..Len(tree.pch)}
    ELSE {tree}

CarriesPowerOff(req) ==
    \/ /\ PathOf(req.url) \in {"aircon/set_control_info", "skyfi/aircon/set_control_info"}
       /\ MapGet(req.query, "pow") = "0"
    \/ PathOf(req.url) = "set.cgi" /\ MapGet(req.query, "p") = "0"
    \/ /\ req.method = "POST"
       /\ "requests" \in DOMAIN req.body
       /\ \E i \in 1..Len(req.body.requests) :
             /\ req.body.requests[i].to = API_PATHS.power[1]
             /\ [pn |-> Last(API_PATHS.power), pv |-> "00"] \in TreeLeaves(req.body.requests[i].pc)

SetClasses == AdapterClasses \ {"Base"}

\* C13: Set with the settings {"pow": "0"} that returns without error has sent, on
\* every adapter, a command that carries power off, and leaves the cached power
\* state off.
C13_PowZeroTurnsTheDeviceOff ==
    (ret.op = "Set" /\ ret.arg = "pow=0" /\ device.class \in SetClasses /\ err = "")
        => /\ \E i \in 1..Len(sent) : CarriesPowerOff(sent[i])
           /\ \A i \in 1..Len(sent) : IsCommand(sent[i]) => CarriesPowerOff(sent[i])
           /\ MapGet(values.data, "pow") = "0"

\* the adapters whose refresh fetches several resources
RefreshClasses == {"BRP069", "BRP072C", "AirBase", "SkyFi"}

\* the error getResource returned for a request the call sent, "" for none
ErrorOf(req) == getResource(target, Adapter, PathOf(req.url), req.query).err

\* C14: UpdateStatus of the legacy, AirBase and SkyFi adapters returns nil when some
\* but not all of the resources it fetched failed with a transport or decode
\* failure, and returns an error when every resource it fetched failed.
C14_RefreshFailsWhenEveryResourceFails ==
    (ret.op = "UpdateStatus" /\ device.class \in RefreshClasses /\ sent # <<>>)
        => /\ ( /\ \E i \in 1..Len(sent) : ErrorOf(sent[i]) = ""
                /\ \A i \in 1..Len(sent) : ErrorOf(sent[i]) \in {"", "ConnectionError", "ParseError"} )
              => err = ""
           /\ (\A i \in 1..Len(sent) : ErrorOf(sent[i]) \in {"ConnectionError", "ParseError"})
              => err # ""

\* the target answered the request with HTTP 403
Forbidden(req) == Do(target, req).status = 403

\* C15: a call of an adapter during which a request was answered with HTTP 403
\* returns an error, also when the request was made inside a refresh or during
\* initialization.
C15_ForbiddenAlwaysSurfaces ==
    (pc = "called" /\ \E i \in 1..Len(sent) : Forbidden(sent[i])) => err # ""

(***************************************************************************)
(* parseResponse applied to bodies drawn from a bounded set                *)
(***************************************************************************)
MaxPairs == 3

\* the comma-separated pieces a body is made of
BodyPieces ==
    {"ret=OK", "ret=KO", "type=aircon", "name=%4e%6f%74%74%65", "name=%zz", "novalue",
     " ret = OK ", "a=b=c", ""}

Bodies == {JoinStrings(pieces, ",") : pieces \in {<<>>} \cup SeqsUpTo(BodyPieces, MaxPairs)}

InitParse ==
    /\ StoreInit
    /\ tr = NoTr
    /\ FactoryIdle
    /\ request = <<>> /\ payload = EmptyMap /\ response = EmptyMap
    /\ \E body \in Bodies : decoded = [op |-> "", body |-> body]

ParseResponseStep ==
    /\ decoded.op = ""
    /\ \E r \in {parseResponse(decoded.body)} :
          decoded' = [op |-> "parseResponse", body |-> decoded.body, err |-> r.err,
                      data |-> r.data]
    /\ UNCHANGED <<storeVars, tr, factoryVars, request, payload, response>>

NextParse == ParseResponseStep

SpecParse == InitParse /\ [][NextParse]_vars

\* the pieces of the body that hold '=', in the order of the body
PairsOf(body) ==
    LET pieces == Split(body, ",")
    IN  [i \in {j \in 1..Len(pieces) : Index(pieces[j], "=") # 0} |->
            [key |-> TrimSpace(SubSeq(pieces[i], 1, Index(pieces[i], "=") - 1)),
             value |-> TrimSpace(SubSeq(pieces[i], Index(pieces[i], "=") + 1, Len(pieces[i])))]]

KeysOf(pairs) == {pairs[i].key : i \in DOMAIN pairs}

\* the value of the last pair with the key
ValueOf(pairs, key) ==
    pairs[CHOOSE i \in DOMAIN pairs :
             pairs[i].key = key /\ \A j \in DOMAIN pairs : pairs[j].key = key => j <= i].value

\* C20: parseResponse returns an error exactly when the body has no ret field; with
\* a ret other than OK it returns the empty map and no error; with ret OK it returns
\* the key=value pairs of the body except ret, the name URL-decoded, and pieces
\* without '=' are skipped.
C20_ParseResponse ==
    decoded.op = "parseResponse" =>
        LET pairs == PairsOf(decoded.body)
        IN  /\ decoded.err # "" <=> "ret" \notin KeysOf(pairs)
            /\ decoded.err # "" => decoded.err = "ParseError"
            /\ ("ret" \in KeysOf(pairs) /\ ValueOf(pairs, "ret") # "OK") =>
                  decoded.data = EmptyMap
            /\ ("ret" \in KeysOf(pairs) /\ ValueOf(pairs, "ret") = "OK") =>
                  /\ DOMAIN decoded.data = KeysOf(pairs) \ {"ret"}
                  /\ \A key \in DOMAIN decoded.data :
                        decoded.data[key] =
                           IF key = "name" /\ ~QueryUnescape(ValueOf(pairs, key)).err
                           THEN QueryUnescape(ValueOf(pairs, key)).value
                           ELSE ValueOf(pairs, key)

C20_Witness ==
    /\ decoded.op = "parseResponse"
    /\ decoded.body = "ret=OK,name=%4e%6f%74%74%65,type=aircon"
    /\ decoded.err = ""
    /\ decoded.data = [name |-> "Notte", type |-> "aircon"]

\* the keys whose presence means energy reporting, by class
EnergyKeys(class) ==
    IF class = "BRP084" THEN {"datas", "today_runtime"}
    ELSE {"datas", "curr_day_cool", "curr_day_heat"}

\* C22: each capability answer of an adapter equals the presence of its key in the
\* store as it is when the method is called (f_rate, f_dir, en_hol, adv, an energy
\* key), and all five are false on a new adapter.
C22_CapabilityIsKeyPresence ==
    ret.op = "Supports" =>
        /\ ret.value.FanRate <=> "f_rate" \in DOMAIN values.data
        /\ ret.value.SwingMode <=> "f_dir" \in DOMAIN values.data
        /\ ret.value.AwayMode <=> "en_hol" \in DOMAIN values.data
        /\ ret.value.AdvancedModes <=> "adv" \in DOMAIN values.data
        /\ ret.value.EnergyConsumption <=> EnergyKeys(device.class) \cap DOMAIN values.data # {}
        /\ values.data = EmptyMap =>
              ret.value = [FanRate |-> FALSE, SwingMode |-> FALSE, AwayMode |-> FALSE,
                           AdvancedModes |-> FALSE, EnergyConsumption |-> FALSE]

\* after Init against a legacy device the answers have changed: the device reports
\* holiday mode disabled, and holiday mode is supported
C22_Witness ==
    /\ ret.op = "Supports"
    /\ ret.arg = "Init"
    /\ device.class = "BRP069"
    /\ target = "legacy"
    /\ MapGet(values.data, "en_hol") = "0"
    /\ ret.value.AwayMode
    /\ ret.value.FanRate
    /\ ~ret.value.EnergyConsumption

(***************************************************************************)
(* Refresh: one adapter of a query-string class is initialized, refreshed  *)
(* and read by its caller while the clock advances and the device changes  *)
(* its answers.  sent holds the requests of the last call, ret the last    *)
(* step, fetchedAt the time and the HTTP status of the last fetch of each  *)
(* resource that came back without an error, invalidated the resources     *)
(* whose attribute the caller read since.                                  *)
(***************************************************************************)
RefreshTargets(class) ==
    CASE class = "BRP069" -> {"legacy", "legacy_flaky", "legacy_gone", "forbidden"}
      [] class = "AirBase" -> {"airbase", "airbase_flaky", "airbase_gone"}
      [] OTHER -> {"skyfi_ret", "skyfi_flaky", "skyfi_gone"}

\* the attributes a caller reads
RefreshKeys == {"pow", "f_rate", "name"}

InitRefresh ==
    /\ values = NewValues
    /\ now = 0 /\ ret = NoRet /\ fetchedAt = EmptyMap /\ invalidated = {}
    /\ tr = NoTr
    /\ CodecIdle
    /\ config = [deviceID |-> "", Password |-> "", Key |-> "", UUID |-> ""]
    /\ tried = <<>>
    /\ pc = "ready"
    /\ err = ""
    /\ sent = <<>>
    /\ \E class \in {"BRP069", "AirBase", "SkyFi"} :
          /\ device = Object(NewAdapter(class))
          /\ target \in RefreshTargets(class)

\* the resources the requests of a call asked for
Requested(requests) == {PathOf(requests[i].url) : i \in 1..Len(requests)}

\* the resources of a call whose request came back without an error
Fetched(requests) ==
    {PathOf(requests[i].url) : i \in {j \in 1..Len(requests) : ErrorOf(requests[j]) = ""}}

\* the HTTP status that answered the request of a call for the resource
StatusOf(requests, res) ==
    Do(target, requests[CHOOSE i \in 1..Len(requests) : PathOf(requests[i].url) = res]).status

\* what a call of Init or UpdateStatus leaves
Refreshed(op, r) ==
    /\ values' = r.d.values
    /\ sent' = r.d.sent
    /\ err' = r.err
    /\ ret' = Ret(op, "", FALSE, "", r.err = "")
    /\ fetchedAt' = MapMerge(fetchedAt, [res \in Fetched(r.d.sent) |->
                                            [at |-> now, status |-> StatusOf(r.d.sent, res)]])
    /\ invalidated' = invalidated \ Fetched(r.d.sent)
    /\ UNCHANGED <<now, tr, codecVars, config, target, pc, device, tried>>

\* Init is the first call on a new adapter
RefreshInit ==
    /\ ret = NoRet
    /\ \E r \in Init_Appliance(target, Adapter, now) : Refreshed("Init", r)

RefreshUpdateStatus ==
    \E r \in UpdateStatus(target, Adapter, now) : Refreshed("UpdateStatus", r)

\* the caller reads an attribute with Values.Get
RefreshGet(key) ==
    /\ \E g \in {Get(values, key)} :
          /\ values' = g.values
          /\ ret' = Ret("Get", key, TRUE, g.value, g.exists)
    /\ invalidated' = IF key \in DOMAIN values.data /\ key \in DOMAIN values.resourceByKey
                      THEN invalidated \cup {values.resourceByKey[key]}
                      ELSE invalidated
    /\ sent' = <<>>
    /\ err' = ""
    /\ UNCHANGED <<now, fetchedAt, tr, codecVars, config, target, pc, device, tried>>

\* the device starts to answer differently
Reach(tg) ==
    /\ tg # target
    /\ target' = tg
    /\ ret' = Ret("Reach", tg, FALSE, "", TRUE)
    /\ UNCHANGED <<values, now, fetchedAt, invalidated, tr, codecVars, config, pc, device, err,
                   sent, tried>>

NextRefresh ==
    \/ RefreshInit
    \/ RefreshUpdateStatus
    \/ \E key \in RefreshKeys : RefreshGet(key)
    \/ \E tg \in RefreshTargets(device.class) : Reach(tg)
    \/ Tick

SpecRefresh == InitRefresh /\ [][NextRefresh]_vars

\* the resources a refresh call has to ask for: all of them in Init, the stale info
\* resources in UpdateStatus
Batch(op) ==
    LET stale(resources) ==
            {res \in resources : ShouldResourceBeUpdated(values, res, now).result}
    IN  CASE device.class = "AirBase" ->
                IF op = "Init" THEN {"skyfi/" \o res : res \in Range(HTTPResources_AirBase)}
                ELSE stale({"skyfi/" \o res : res \in Range(InfoResources_AirBase)})
          [] device.class = "SkyFi" ->
                IF op = "Init" THEN Range(HTTPResources_SkyFi)
                ELSE stale(Range(HTTPResources_SkyFi))
          [] OTHER ->
                IF op = "Init" THEN Range(HTTPResources_BRP069)
                ELSE stale(Range(InfoResources_BRP069))

\* a refresh call: updateStatusWithResources under UpdateStatus of the legacy adapter,
\* UpdateStatus and Init of AirBase and SkyFi
RefreshCall ==
    \/ ret'.op = "UpdateStatus"
    \/ ret'.op = "Init" /\ device.class \in {"AirBase", "SkyFi"}

\* C23: in a multi-resource refresh, when the request of one resource fails, every
\* remaining resource of the batch is still requested, no resource is requested twice,
\* the cached values are left as they were by the failed resource, and the failed
\* resource gets no freshness stamp, so ShouldResourceBeUpdated stays true for it.
C23_FailedResourceIsSkipped ==
    [][RefreshCall =>
          /\ Requested(sent') = Batch(ret'.op)
          /\ Len(sent') = Cardinality(Requested(sent'))
          /\ \A res \in Requested(sent') \ Fetched(sent') :
                /\ res \notin DOMAIN values'.lastUpdateByResource
                /\ ShouldResourceBeUpdated(values', res, now).result
                /\ \A key \in DOMAIN values'.resourceByKey :
                      values'.resourceByKey[key] = res =>
                          /\ key \in DOMAIN values.resourceByKey
                          /\ values.resourceByKey[key] = res
                          /\ values'.data[key] = values.data[key]
          /\ \A key \in DOMAIN values.data :
                \/ /\ key \in DOMAIN values'.data
                   /\ values'.data[key] = values.data[key]
                   /\ MapGet(values'.resourceByKey, key) = MapGet(values.resourceByKey, key)
                \/ /\ key \in DOMAIN values'.resourceByKey
                   /\ values'.resourceByKey[key] \in Fetched(sent')]_vars

\* a legacy device failed the first resource of a refresh: the second was fetched
\* and stamped all the same
C23_Witness ==
    /\ ret.op = "UpdateStatus"
    /\ target = "legacy_flaky"
    /\ Requested(sent) = {"aircon/get_sensor_info", "aircon/get_control_info"}
    /\ Fetched(sent) = {"aircon/get_control_info"}
    /\ "aircon/get_control_info" \in DOMAIN values.lastUpdateByResource
    /\ "aircon/get_sensor_info" \notin DOMAIN values.lastUpdateByResource
    /\ MapGet(values.data, "pow") = "1"

\* the answer of the device to a request of the call, and what getResource made of it
Answer(req) == Do(target, req)

Result(req) == getResource(target, Adapter, PathOf(req.url), req.query)

\* the result r of getResource agrees with the status of the answer a
StatusMapped(a, r) ==
    CASE a.status = 403 -> r.err = "AuthenticationError" /\ r.data = EmptyMap
      [] a.status = 404 -> r.err = "" /\ r.data = EmptyMap
      [] a.status # 200 -> r.err = "ConnectionError" /\ r.data = EmptyMap
      [] a.body = "" -> r.err # "" /\ r.data = EmptyMap
      [] OTHER -> r.err = parseResponse(a.body).err /\ r.data = parseResponse(a.body).data

\* the resources of a call that were answered with the status
AnsweredWith(requests, status) ==
    {PathOf(requests[i].url) : i \in {j \in 1..Len(requests) : Answer(requests[j]).status = status}}

\* C24: getResource maps status 403 to an authentication error, 404 to an empty map
\* without error, every other status but 200 to a connection error, and parses the
\* body only for 200.  A refresh that gets the 404 result stamps the resource fresh
\* and changes no cached value, and the resource is not requested again until the
\* TTL has passed or a key it owns is read.
C24_StatusMappingAndEmptyRefresh ==
    [][ret'.op \in {"Init", "UpdateStatus"} =>
          /\ \A i \in 1..Len(sent') : StatusMapped(Answer(sent'[i]), Result(sent'[i]))
          /\ \A res \in AnsweredWith(sent', 404) :
                /\ res \in DOMAIN values'.lastUpdateByResource
                /\ values'.lastUpdateByResource[res] = now
                /\ \A key \in DOMAIN values'.resourceByKey :
                      values'.resourceByKey[key] = res =>
                          /\ key \in DOMAIN values.resourceByKey
                          /\ values.resourceByKey[key] = res
                          /\ values'.data[key] = values.data[key]
          /\ (sent' # <<>> /\ AnsweredWith(sent', 404) = Requested(sent')) =>
                /\ values'.resourceByKey = values.resourceByKey
                /\ \A key \in DOMAIN values.data :
                      key \in DOMAIN values'.data /\ values'.data[key] = values.data[key]
          /\ ret'.op = "UpdateStatus" =>
                \A res \in DOMAIN fetchedAt :
                    (/\ fetchedAt[res].status = 404
                     /\ now - fetchedAt[res].at < TTL
                     /\ res \notin invalidated) => res \notin Requested(sent')]_vars

\* a legacy device that answered all resources at initialization answers 404 for the
\* control resource a TTL later: the resource is fresh again, the cached power state
\* and its ownership are as they were
C24_Witness ==
    /\ ret.op = "UpdateStatus"
    /\ target = "legacy_gone"
    /\ now >= TTL
    /\ "aircon/get_control_info" \in DOMAIN fetchedAt
    /\ fetchedAt["aircon/get_control_info"] = [at |-> now, status |-> 404]
    /\ MapGet(values.lastUpdateByResource, "aircon/get_control_info") = now
    /\ MapGet(values.data, "pow") = "1"
    /\ MapGet(values.resourceByKey, "pow") = "aircon/get_control_info"

\* the resources UpdateStatus of the adapter goes through
InfoResources ==
    CASE device.class = "AirBase" -> {"skyfi/" \o res : res \in Range(InfoResources_AirBase)}
      [] device.class = "SkyFi" -> Range(HTTPResources_SkyFi)
      [] OTHER -> Range(InfoResources_BRP069)

\* the resource was fetched with success less than a TTL ago and no attribute it
\* owned was read since
FreshByHistory(res) ==
    /\ res \in DOMAIN fetchedAt
    /\ now - fetchedAt[res].at < TTL
    /\ res \notin invalidated

\* the step before was an invalidating read of a stored attribute that a resource owns
ReadBefore == ret.op = "Get" /\ ret.ok /\ ret.arg \in DOMAIN values.resourceByKey

\* no request is sent by the clock, by the device or by a read
NoRequestOutsideACall ==
    /\ ret'.op \in {"Tick", "Reach"} => sent' = sent
    /\ ret'.op = "Get" => sent' = <<>>

C26_SetStaysOutOfStalenessTracking ==
    [][/\ ret'.op = "Set" =>
             /\ values'.lastUpdateByResource = values.lastUpdateByResource
             /\ values'.resourceByKey = values.resourceByKey
             /\ DOMAIN values'.data = DOMAIN values.data \cup {ret'.arg}
             /\ values'.data[ret'.arg] = ret'.value
             /\ \A key \in DOMAIN values.data \ {ret'.arg} :
                   values'.data[key] = values.data[key]
       /\ (ret.op = "Set" /\ ret'.op = "Get" /\ ret'.invalidate /\ ret'.arg = ret.arg) =>
             /\ ret'.ok
             /\ ret'.value = ret.value
             /\ values'.lastUpdateByResource = values.lastUpdateByResource]_vars

\* C27: GetWithInvalidation(k, true) removes at most the freshness entry of the
\* resource that owns k and leaves all values, all ownership records and the
\* freshness of every other resource as they were; GetWithInvalidation(k, false),
\* Has, Keys, All and Len change nothing and answer from the values; a read of an
\* absent key returns not found and changes nothing, also with invalidate = true.
C27_ReadsLeaveTheStoreAlone ==
    [][/\ ret'.op = "Get" =>
             /\ values'.data = values.data
             /\ values'.resourceByKey = values.resourceByKey
             /\ DOMAIN values'.lastUpdateByResource \subseteq DOMAIN values.lastUpdateByResource
             /\ \A res \in DOMAIN values.lastUpdateByResource :
                   IF res \in DOMAIN values'.lastUpdateByResource
                   THEN values'.lastUpdateByResource[res] = values.lastUpdateByResource[res]
                   ELSE /\ ret'.invalidate
                        /\ ret'.arg \in DOMAIN values.resourceByKey
                        /\ res = values.resourceByKey[ret'.arg]
             /\ ~ret'.invalidate => values' = values
             /\ IF ret'.arg \in DOMAIN values.data
                THEN ret'.ok /\ ret'.value = values.data[ret'.arg]
                ELSE ~ret'.ok /\ ret'.value = "" /\ values' = values
       /\ ret'.op \in {"Has", "Keys", "All", "Len"} => values' = values
       /\ ret'.op = "Has" => (ret'.ok <=> ret'.arg \in DOMAIN values.data)
       /\ ret'.op = "Keys" => ret'.value = DOMAIN values.data
       /\ ret'.op = "All" => ret'.value = values.data
       /\ ret'.op = "Len" => ret'.value = Cardinality(DOMAIN values.data)]_vars

\* an invalidating read has just cleared the freshness of the resource that owns the
\* key, and another resource that owns the other key is still fresh
C27_Witness ==
    /\ ret.op = "Get" /\ ret.invalidate /\ ret.ok
    /\ ret.arg \in DOMAIN values.resourceByKey
    /\ values.resourceByKey[ret.arg] \notin DOMAIN values.lastUpdateByResource
    /\ \E key \in StoreKeys \ {ret.arg} :
          /\ key \in DOMAIN values.resourceByKey
          /\ values.resourceByKey[key] # values.resourceByKey[ret.arg]
          /\ values.resourceByKey[key] \in DOMAIN values.lastUpdateByResource
          /\ values.resourceByKey[key] \notin invalidated

(***************************************************************************)
(* The attribute store under concurrent callers.  values carries the lock  *)
(* mu of the store, pc the position of each caller inside the method it    *)
(* runs, statement by statement, ret the result of the method that         *)
(* returned last.                                                          *)
(***************************************************************************)
Callers == {"c1", "c2"}

\* sync.RWMutex: the caller that holds the write lock, the callers that hold read locks
Unlocked == [writer |-> "", readers |-> {}]

Idle == [op |-> "", at |-> "idle"]

\* the batch a refresh of the resource supplies
BatchOf(resource) ==
    IF resource = "R1" THEN [key \in StoreKeys |-> "1"] ELSE [key \in StoreKeys |-> "2"]

\* a plausible slip: the write lock is granted while readers hold the lock
CanLockBesideReaders(mu) == mu.writer = ""

\* Lock waits until no caller holds the lock, RLock until no writer does
CanLock(mu) == mu.writer = "" /\ mu.readers = {}

CanRLock(mu) == mu.writer = ""

InitConcurrent ==
    /\ values = NewValues @@ [mu |-> Unlocked]
    /\ now = 0 /\ ret = NoRet /\ fetchedAt = EmptyMap /\ invalidated = {}
    /\ tr = NoTr
    /\ CodecIdle
    /\ config = [deviceID |-> "", Password |-> "", Key |-> "", UUID |-> ""]
    /\ target = ""
    /\ device = NoDevice
    /\ err = ""
    /\ sent = <<>>
    /\ tried = <<>>
    /\ pc = [p \in Callers |-> Idle]

ConcurrentFrame == UNCHANGED <<now, tr, codecVars, config, target, device, err, sent, tried>>

\* a caller enters a method of the store and reaches its Lock or RLock
CallStore(p, op, arg) ==
    /\ pc[p].at = "idle"
    /\ pc' = [pc EXCEPT ![p] = [op |-> op, at |-> IF op = "All" THEN "rlock" ELSE "lock",
                                arg |-> arg]]
    /\ UNCHANGED <<values, ret, fetchedAt, invalidated>>
    /\ ConcurrentFrame

\* v.mu.Lock(), and what the method prepares before its first access
Lock(p) ==
    /\ pc[p].at = "lock"
    /\ CanLock(values.mu)
    /\ values' = [values EXCEPT !.mu.writer = p]
    /\ pc' = [pc EXCEPT ![p] =
                CASE pc[p].op = "UpdateByResource" ->
                        [at |-> "range", todo |-> DOMAIN BatchOf(pc[p].arg), key |-> ""] @@ pc[p]
                  [] pc[p].op = "ShouldResourceBeUpdated" ->
                        [at |-> IF DOMAIN values.lastUpdateByResource = {}
                                THEN "check" ELSE "sweep",
                         todo |-> DOMAIN values.lastUpdateByResource, t |-> now] @@ pc[p]
                  [] OTHER -> [at |-> "lookup"] @@ pc[p]]
    /\ UNCHANGED <<ret, fetchedAt, invalidated>>
    /\ ConcurrentFrame

\* v.mu.RLock() of All, and the empty result map
RLock(p) ==
    /\ pc[p].at = "rlock"
    /\ CanRLock(values.mu)
    /\ values' = [values EXCEPT !.mu.readers = @ \cup {p}]
    /\ pc' = [pc EXCEPT ![p] = [at |-> IF DOMAIN values.data = {} THEN "return" ELSE "copy",
                                todo |-> DOMAIN values.data, result |-> EmptyMap] @@ pc[p]]
    /\ UNCHANGED <<ret, fetchedAt, invalidated>>
    /\ ConcurrentFrame

\* UpdateByResource, v.data[key] = value for the next key of the iteration
WriteValue(p) ==
    /\ pc[p].op = "UpdateByResource" /\ pc[p].at = "range" /\ pc[p].todo # {}
    /\ \E key \in pc[p].todo :
          /\ values' = [values EXCEPT !.data = MapPut(@, key, BatchOf(pc[p].arg)[key])]
          /\ pc' = [pc EXCEPT ![p].at = "owner", ![p].key = key]
    /\ UNCHANGED <<ret, fetchedAt, invalidated>>
    /\ ConcurrentFrame

\* UpdateByResource, v.resourceByKey[key] = resource
WriteOwner(p) ==
    /\ pc[p].op = "UpdateByResource" /\ pc[p].at = "owner"
    /\ values' = [values EXCEPT !.resourceByKey = MapPut(@, pc[p].key, pc[p].arg)]
    /\ pc' = [pc EXCEPT ![p].at = "range", ![p].todo = @ \ {pc[p].key}]
    /\ UNCHANGED <<ret, fetchedAt, invalidated>>
    /\ ConcurrentFrame

\* UpdateByResource, v.lastUpdateByResource[resource] = time.Now()
Stamp(p) ==
    /\ pc[p].op = "UpdateByResource" /\ pc[p].at = "range" /\ pc[p].todo = {}
    /\ values' = [values EXCEPT !.lastUpdateByResource = MapPut(@, pc[p].arg, now)]
    /\ pc' = [pc EXCEPT ![p] = [op |-> pc[p].op, at |-> "return", arg |-> pc[p].arg,
                                result |-> Ret("UpdateByResource", pc[p].arg, FALSE, "", TRUE)]]
    /\ fetchedAt' = MapPut(fetchedAt, pc[p].arg, now)
    /\ invalidated' = invalidated \ {pc[p].arg}
    /\ UNCHANGED ret
    /\ ConcurrentFrame

\* GetWithInvalidation, value, exists := v.data[key]
Lookup(p) ==
    /\ pc[p].op = "Get" /\ pc[p].at = "lookup"
    /\ pc' = [pc EXCEPT ![p] =
                IF pc[p].arg \in DOMAIN values.data
                THEN [at |-> "invalidate", value |-> values.data[pc[p].arg]] @@ pc[p]
                ELSE [op |-> "Get", at |-> "return", arg |-> pc[p].arg,
                      result |-> Ret("Get", pc[p].arg, TRUE, "", FALSE)]]
    /\ UNCHANGED <<values, ret, fetchedAt, invalidated>>
    /\ ConcurrentFrame

\* GetWithInvalidation, the delete of the owner's freshness entry
InvalidateOwner(p) ==
    /\ pc[p].op = "Get" /\ pc[p].at = "invalidate"
    /\ values' = Invalidate(values, pc[p].arg)
    /\ pc' = [pc EXCEPT ![p] = [op |-> "Get", at |-> "return", arg |-> pc[p].arg,
                                result |-> Ret("Get", pc[p].arg, TRUE, pc[p].value, TRUE)]]
    /\ invalidated' = IF pc[p].arg \in DOMAIN values.resourceByKey
                      THEN invalidated \cup {values.resourceByKey[pc[p].arg]}
                      ELSE invalidated
    /\ UNCHANGED <<ret, fetchedAt>>
    /\ ConcurrentFrame

\* All, result[key] = value for the next key of the iteration
CopyEntry(p) ==
    /\ pc[p].op = "All" /\ pc[p].at = "copy"
    /\ \E key \in pc[p].todo :
          pc' = [pc EXCEPT ![p].result = IF key \in DOMAIN values.data
                                         THEN MapPut(@, key, values.data[key]) ELSE @,
                           ![p].todo = @ \ {key},
                           ![p].at = IF pc[p].todo = {key} THEN "return" ELSE "copy"]
    /\ UNCHANGED <<values, ret, fetchedAt, invalidated>>
    /\ ConcurrentFrame

\* ShouldResourceBeUpdated, the next entry of the sweep
SweepEntry(p) ==
    /\ pc[p].op = "ShouldResourceBeUpdated" /\ pc[p].at = "sweep"
    /\ \E res \in pc[p].todo :
          /\ values' = IF res \in DOMAIN values.lastUpdateByResource
                          /\ Expired(values.lastUpdateByResource[res], pc[p].t)
                       THEN [values EXCEPT !.lastUpdateByResource = MapDelete(@, res)]
                       ELSE values
          /\ invalidated' = IF res \in DOMAIN values.lastUpdateByResource
                               /\ Expired(values.lastUpdateByResource[res], pc[p].t)
                            THEN invalidated \cup {res} ELSE invalidated
          /\ pc' = [pc EXCEPT ![p].todo = @ \ {res},
                              ![p].at = IF pc[p].todo = {res} THEN "check" ELSE "sweep"]
    /\ UNCHANGED <<ret, fetchedAt>>
    /\ ConcurrentFrame

\* ShouldResourceBeUpdated, the test of the resource's entry
CheckEntry(p) ==
    /\ pc[p].op = "ShouldResourceBeUpdated" /\ pc[p].at = "check"
    /\ pc' = [pc EXCEPT ![p] =
                [op |-> pc[p].op, at |-> "return", arg |-> pc[p].arg,
                 result |-> Ret("ShouldResourceBeUpdated", pc[p].arg, FALSE, "",
                                pc[p].arg \notin DOMAIN values.lastUpdateByResource)]]
    /\ UNCHANGED <<values, ret, fetchedAt, invalidated>>
    /\ ConcurrentFrame

\* the deferred Unlock or RUnlock, and the return to the caller
Unlock(p) ==
    /\ pc[p].at = "return"
    /\ values' = [values EXCEPT !.mu = [writer |-> IF @.writer = p THEN "" ELSE @.writer,
                                        readers |-> @.readers \ {p}]]
    /\ ret' = IF pc[p].op = "All" THEN Ret("All", "", FALSE, pc[p].result, TRUE)
              ELSE pc[p].result
    /\ pc' = [pc EXCEPT ![p] = Idle]
    /\ UNCHANGED <<fetchedAt, invalidated>>
    /\ ConcurrentFrame

NextConcurrent ==
    \/ \E p \in Callers, resource \in Resources : CallStore(p, "UpdateByResource", resource)
    \/ \E p \in Callers, resource \in Resources : CallStore(p, "ShouldResourceBeUpdated", resource)
    \/ \E p \in Callers, key \in StoreKeys : CallStore(p, "Get", key)
    \/ \E p \in Callers : CallStore(p, "All", "")
    \/ \E p \in Callers : Lock(p)
    \/ \E p \in Callers : RLock(p)
    \/ \E p \in Callers : WriteValue(p)
    \/ \E p \in Callers : WriteOwner(p)
    \/ \E p \in Callers : Stamp(p)
    \/ \E p \in Callers : Lookup(p)
    \/ \E p \in Callers : InvalidateOwner(p)
    \/ \E p \in Callers : CopyEntry(p)
    \/ \E p \in Callers : SweepEntry(p)
    \/ \E p \in Callers : CheckEntry(p)
    \/ \E p \in Callers : Unlock(p)
    \/ Tick

SpecConcurrent == InitConcurrent /\ [][NextConcurrent]_vars

\* the caller is between the Lock or RLock of a method and its deferred Unlock
Inside(p) == pc[p].at \notin {"idle", "lock", "rlock"}

\* a map of attributes is the whole batch of one resource, or empty
WholeData(data) ==
    \/ data = EmptyMap
    \/ \E resource \in Resources : data = BatchOf(resource)

\* the store shows each batch as a whole: the values of one resource, every key owned
\* by that resource, and the resource stamped unless an invalidating read or a sweep
\* has removed the stamp since
WholeBatches(v) ==
    /\ WholeData(v.data)
    /\ DOMAIN v.resourceByKey = DOMAIN v.data
    /\ \A key \in DOMAIN v.data :
          /\ v.data = BatchOf(v.resourceByKey[key])
          /\ v.resourceByKey[key] \in DOMAIN v.lastUpdateByResource \cup invalidated

\* C28: every store operation is atomic with respect to every other: no two callers
\* are inside methods of the store at once unless both only read; what a Get or an All
\* reads and returns is never a partly applied UpdateByResource batch, nor values
\* without their ownership records and stamp; the sweep of ShouldResourceBeUpdated
\* never runs while an UpdateByResource or an invalidating Get is under way.
C28_StoreOperationsAreAtomic ==
    /\ \A p, q \in Callers :
          (p # q /\ Inside(p) /\ Inside(q)) => (pc[p].op = "All" /\ pc[q].op = "All")
    /\ \A p \in Callers : (Inside(p) /\ pc[p].op \in {"Get", "All"}) => WholeBatches(values)
    /\ \A p \in Callers :
          (Inside(p) /\ pc[p].op = "All") => \E resource \in Resources :
              \A key \in DOMAIN pc[p].result : pc[p].result[key] = BatchOf(resource)[key]
    /\ ret.op = "All" => WholeData(ret.value)
    /\ values.mu.writer = "" => WholeBatches(values)
    /\ \A p, q \in Callers :
          (Inside(p) /\ pc[p].op = "ShouldResourceBeUpdated" /\ pc[p].at = "sweep") =>
              (q = p \/ ~Inside(q))

\* one caller is half way through a batch, one key written and not yet owned, while
\* the other waits at the read lock of All
C28_Witness ==
    \E p, q \in Callers :
        /\ pc[p].op = "UpdateByResource" /\ pc[p].at = "owner"
        /\ ~WholeBatches(values)
        /\ DOMAIN values.data # DOMAIN values.resourceByKey
        /\ pc[q].op = "All" /\ pc[q].at = "rlock"

(***************************************************************************)
(* UpdateStatus called by concurrent callers on one adapter.  pc is the    *)
(* position of each caller in the refresh loop, sent the requests that are *)
(* on the network and not answered yet.  Each method of the store is one   *)
(* step.                                                                   *)
(***************************************************************************)
\* the caller is not in UpdateStatus
Outside == [at |-> "idle", resources |-> <<>>, list |-> <<>>]

InitInFlight ==
    /\ values = NewValues
    /\ now = 0 /\ ret = NoRet /\ fetchedAt = EmptyMap /\ invalidated = {}
    /\ tr = NoTr
    /\ CodecIdle
    /\ config = [deviceID |-> "", Password |-> "", Key |-> "", UUID |-> ""]
    /\ err = ""
    /\ tried = <<>>
    /\ sent = {}
    /\ pc = [p \in Callers |-> Outside]
    /\ \E class \in {"BRP069", "SkyFi"} :
          /\ device = Object(NewAdapter(class))
          /\ target = IF class = "BRP069" THEN "legacy_flaky" ELSE "skyfi_flaky"

InFlightFrame == UNCHANGED <<now, fetchedAt, invalidated, tr, codecVars, config, target, device,
                             err, tried>>

\* the resource a caller fetches next, and the request getResource builds for it
Fetching(p) == Head(pc[p].list)

RequestFor(resource) ==
    NewRequest("GET", device.BaseURL \o "/" \o resource,
               IF device.class = "SkyFi" THEN "pass" :> device.Password ELSE EmptyMap,
               device.Headers, <<>>)

\* the position after the fetch loop has dealt with the head of the list
AfterFetch(p) ==
    [at |-> IF Tail(pc[p].list) # <<>> THEN "fetch"
            ELSE IF pc[p].resources # <<>> THEN "filter" ELSE "return",
     resources |-> pc[p].resources,
     list |-> Tail(pc[p].list)]

\* UpdateStatus is entered: the resources it goes through
EnterUpdateStatus(p) ==
    /\ pc[p].at = "idle"
    /\ pc' = [pc EXCEPT ![p] =
                [at |-> "filter",
                 resources |-> IF device.class = "SkyFi" THEN HTTPResources_SkyFi
                               ELSE IF SupportsEnergyConsumption(values)
                               THEN InfoResources_BRP069 \o
                                    <<"aircon/get_day_power_ex", "aircon/get_week_power">>
                               ELSE InfoResources_BRP069,
                 list |-> <<>>]]
    /\ UNCHANGED <<values, ret, sent>>
    /\ InFlightFrame

\* ShouldResourceBeUpdated for the next resource.  The legacy adapter tests all the
\* resources before it fetches the first, the SkyFi adapter fetches each at once.
CheckStale(p) ==
    /\ pc[p].at = "filter"
    /\ \E s \in {ShouldResourceBeUpdated(values, Head(pc[p].resources), now)} :
          /\ values' = s.values
          /\ \E list \in {IF s.result THEN Append(pc[p].list, Head(pc[p].resources))
                          ELSE pc[p].list} :
                pc' = [pc EXCEPT ![p] =
                         [at |-> IF list # <<>> /\ (device.class = "SkyFi"
                                                    \/ Tail(pc[p].resources) = <<>>)
                                 THEN "fetch"
                                 ELSE IF Tail(pc[p].resources) # <<>> THEN "filter"
                                 ELSE "return",
                          resources |-> Tail(pc[p].resources),
                          list |-> list]]
    /\ UNCHANGED <<ret, sent>>
    /\ InFlightFrame

\* a plausible slip: the request waits until fewer requests than the advertised
\* maximum are on the network
SendWithinLimit(p) ==
    /\ pc[p].at = "fetch"
    /\ Cardinality(sent) < device.MaxConcurrentRequests
    /\ sent' = sent \cup {[from |-> p, request |-> RequestFor(Fetching(p))]}
    /\ pc' = [pc EXCEPT ![p].at = "wait"]
    /\ UNCHANGED <<values, ret>>
    /\ InFlightFrame

\* getResource hands the request to the HTTP client
Send(p) ==
    /\ pc[p].at = "fetch"
    /\ sent' = sent \cup {[from |-> p, request |-> RequestFor(Fetching(p))]}
    /\ pc' = [pc EXCEPT ![p].at = "wait"]
    /\ UNCHANGED <<values, ret>>
    /\ InFlightFrame

\* the answer arrives: a failed resource is skipped, the data of the others is kept
\* for UpdateByResource
Receive(p) ==
    /\ pc[p].at = "wait"
    /\ sent' = sent \ {[from |-> p, request |-> RequestFor(Fetching(p))]}
    /\ \E r \in {getResource(target, Adapter, Fetching(p), RequestFor(Fetching(p)).query)} :
          pc' = [pc EXCEPT ![p] = IF r.err # "" THEN AfterFetch(p)
                                  ELSE [at |-> "store", data |-> r.data] @@ pc[p]]
    /\ UNCHANGED <<values, ret>>
    /\ InFlightFrame

\* the data is parsed and goes to UpdateByResource
Store(p) ==
    /\ pc[p].at = "store"
    /\ \E batch \in IF device.class = "SkyFi" THEN parseSkyFiResponse(SprintfMap(pc[p].data))
                    ELSE {parseSpecialFields(pc[p].data)} :
          values' = UpdateByResource(values, Fetching(p), batch, now)
    /\ pc' = [pc EXCEPT ![p] = AfterFetch(p)]
    /\ UNCHANGED <<ret, sent>>
    /\ InFlightFrame

\* UpdateStatus returns nil
LeaveUpdateStatus(p) ==
    /\ pc[p].at = "return"
    /\ pc' = [pc EXCEPT ![p] = Outside]
    /\ ret' = Ret("UpdateStatus", p, FALSE, "", TRUE)
    /\ UNCHANGED <<values, sent>>
    /\ InFlightFrame

NextInFlight ==
    \/ \E p \in Callers : EnterUpdateStatus(p)
    \/ \E p \in Callers : CheckStale(p)
    \/ \E p \in Callers : Send(p)
    \/ \E p \in Callers : Receive(p)
    \/ \E p \in Callers : Store(p)
    \/ \E p \in Callers : LeaveUpdateStatus(p)

SpecInFlight == InitInFlight /\ [][NextInFlight]_vars

\* the requests on the network for the resource
InFlight(resource) == {m \in sent : PathOf(m.request.url) = resource}

\* C29: the advertised maximum of 1 is advisory: a caller that has passed the
\* staleness check hands its request to the network whatever is in flight already
\* (only the number of callers bounds the requests in flight), so that two concurrent
\* UpdateStatus calls can both pass the check for one resource and have their
\* requests for it in flight at once.
C29_LimitIsAdvisory ==
    /\ device.MaxConcurrentRequests = 1
    /\ \A p \in Callers : pc[p].at = "fetch" => ENABLED Send(p)
    /\ Cardinality(sent) <= Cardinality(Callers)

\* both callers passed the check for one resource, and both requests are in flight
C29_Witness ==
    /\ device.class = "BRP069"
    /\ device.MaxConcurrentRequests = 1
    /\ \A p \in Callers : pc[p].at = "wait" /\ Fetching(p) = "aircon/get_control_info"
    /\ Cardinality(InFlight("aircon/get_control_info")) = 2
    /\ "aircon/get_control_info" \notin DOMAIN values.lastUpdateByResource

\* C30: for every attribute write of the request, the payload of Serialize holds,
\* under the top-level entry of the write's endpoint, the chain of branches named by
\* the path segments in order, and the leaf {pn, pv} of the write is a child of the
\* deepest branch: no write is missing from the payload.
C30_EveryWriteIsInThePayload ==
    payload # EmptyMap =>
        \A w \in 1..Len(request) :
            \E i \in 1..Len(payload.requests) :
                /\ payload.requests[i].to = request[w].To
                /\ \E e \in ChainEnds(payload.requests[i].pc.pch, request[w].Path) :
                      Format(request[w]) \in LeavesOf(e[Len(e)])

(***************************************************************************)
(* The shape of the payload Serialize builds                               *)
(***************************************************************************)
\* the positions of the branches (children holding a pch) of a child list
BranchesIn(children) == {i \in 1..Len(children) : "pch" \in DOMAIN children[i]}

\* no two sibling branches of the list, or of any list below it, have the same name
RECURSIVE SiblingsDistinct(_)
SiblingsDistinct(children) ==
    /\ \A i \in BranchesIn(children) : \A j \in BranchesIn(children) :
          i # j => children[i].pn # children[j].pn
    /\ \A i \in BranchesIn(children) : SiblingsDistinct(children[i].pch)

\* C31: in the payload Serialize produces for a list of attribute writes, no two
\* top-level request entries have the same endpoint, and at every level no two
\* sibling branches have the same name.
C31_NoDuplicateEndpointsOrSiblings ==
    payload # EmptyMap =>
        /\ \A i \in 1..Len(payload.requests) : \A j \in 1..Len(payload.requests) :
              i # j => payload.requests[i].to # payload.requests[j].to
        /\ \A i \in 1..Len(payload.requests) :
              /\ payload.requests[i].pc.pn = "dgc_status"
              /\ SiblingsDistinct(payload.requests[i].pc.pch)

\* two writes addressed to the same endpoint through the same branch were encoded
\* into one top-level entry
C31_Witness ==
    /\ payload # EmptyMap
    /\ Len(request) = 2
    /\ request[1].To = request[2].To
    /\ request[1].Path[1] = request[2].Path[1]
    /\ request[1].Name # request[2].Name
    /\ Len(payload.requests) = 1
    /\ payload.requests[1].to = request[1].To

(***************************************************************************)
(* Set with a key the device class has no use for                          *)
(***************************************************************************)
\* the classes without holiday mode whose Set is implemented
HolidayLackingClasses == {"BRP084", "AirBase", "SkyFi"}

\* the settings of the Set call that the step records
SettingsOfCall(text) == {settings \in SettingsInputs : SettingsText(settings) = text}

\* C32: Set with a settings key the device class does not support (en_hol on the
\* tree-protocol, AirBase and SkyFi adapters) is silently ignored: Set returns what
\* the same call without the key returns, sends the same requests, and leaves the
\* same store and the same capability answers.
C32_UnsupportedKeyIsIgnored ==
    [][(ret'.op = "Set" /\ device.class \in HolidayLackingClasses) =>
          \A settings \in SettingsOfCall(ret'.arg) :
             "en_hol" \in DOMAIN settings =>
                \E r \in Set(target, Adapter, MapDelete(settings, "en_hol"), now) :
                   /\ err' = r.err
                   /\ sent' = sent \o r.d.sent
                   /\ values' = r.d.values
                   /\ Supports(device, values') = Supports(device, r.d.values)]_vars

(***************************************************************************)
(* Commands: the caller refreshes an adapter and changes settings with Set *)
(* against one device.  sent holds the requests of the last call, ret the  *)
(* last call and its settings.                                             *)
(***************************************************************************)
CommandClasses == {"BRP069", "AirBase", "SkyFi", "BRP084"}

CommandTargets(class) ==
    CASE class = "BRP069" -> SwingTargets \cup {"legacy", "legacy_deaf", "legacy_defaults"}
      [] class = "AirBase" -> {"airbase", "airbase_manual", "airbase_deaf"}
      [] class = "BRP084" -> {"tree", "tree_deaf"}
      [] OTHER -> {"skyfi_ret"}

\* what the caller passes to Set
CommandSettings ==
    {"stemp" :> "24.5", "mode" :> "off", "mode" :> "cool", "mode" :> "hot" @@ "stemp" :> "20.0",
     "f_rate" :> "high"}

InitCommand ==
    /\ values = NewValues
    /\ now = 0 /\ ret = NoRet /\ fetchedAt = EmptyMap /\ invalidated = {}
    /\ tr = NoTr
    /\ CodecIdle
    /\ config = [deviceID |-> "", Password |-> "", Key |-> "", UUID |-> ""]
    /\ tried = <<>>
    /\ pc = "ready"
    /\ err = ""
    /\ sent = <<>>
    /\ \E class \in CommandClasses :
          /\ device = Object(NewAdapter(class))
          /\ target \in CommandTargets(class)

\* what a call leaves: the store, its requests, its error
Commanded(op, arg, r) ==
    /\ values' = r.d.values
    /\ sent' = r.d.sent
    /\ err' = r.err
    /\ ret' = Ret(op, arg, FALSE, "", r.err = "")
    /\ UNCHANGED <<now, fetchedAt, invalidated, tr, codecVars, config, target, pc, device, tried>>

CommandUpdateStatus ==
    \E r \in UpdateStatus(target, Adapter, now) : Commanded("UpdateStatus", "", r)

CommandSet(settings) ==
    \E r \in Set(target, Adapter, settings, now) : Commanded("Set", SettingsText(settings), r)

NextCommand ==
    \/ CommandUpdateStatus
    \/ \E settings \in CommandSettings : CommandSet(settings)

SpecCommand == InitCommand /\ [][NextCommand]_vars

(***************************************************************************)
(* The separate swing fields of the legacy adapter                         *)
(***************************************************************************)
\* what a device reports in a swing field; "-" stands for a field it does not report
SwingFieldValues == {"-", "0", "S", "1"}

SwingReport(ud, lr, dir) ==
    ("pow" :> "1")
    @@ (IF ud = "-" THEN EmptyMap ELSE "f_dir_ud" :> ud)
    @@ (IF lr = "-" THEN EmptyMap ELSE "f_dir_lr" :> lr)
    @@ (IF dir = "-" THEN EmptyMap ELSE "f_dir" :> dir)

\* the f_dir code of a pair, "-" for a pair that has none
SwingCode(ud, lr) ==
    CASE ud = "0" /\ lr = "0" -> "0"
      [] ud = "S" /\ lr = "0" -> "1"
      [] ud = "0" /\ lr = "S" -> "2"
      [] ud = "S" /\ lr = "S" -> "3"
      [] OTHER -> "-"

\* the command of a Set call that went through
CommandOf(requests) == requests[Len(requests)].query

\* C33: parseSpecialFields maps (f_dir_ud, f_dir_lr) = (0,0), (S,0), (0,S), (S,S) to
\* f_dir = 0, 1, 2, 3 and leaves f_dir and every other field as they are for any
\* other pair and when a field is absent; for a device that reports f_dir_lr, Set
\* sends the pair of the cached f_dir instead of f_dir, and for a device that
\* reports one of the four pairs the pair Set sends is the pair the device reports.
C33_SwingFieldsRoundTrip ==
    /\ \A ud \in SwingFieldValues, lr \in SwingFieldValues, dir \in {"-", "0", "2"} :
          \E parsed \in {parseSpecialFields(SwingReport(ud, lr, dir))} :
             /\ MapDelete(parsed, "f_dir") = MapDelete(SwingReport(ud, lr, dir), "f_dir")
             /\ IF SwingCode(ud, lr) # "-"
                THEN parsed["f_dir"] = SwingCode(ud, lr)
                ELSE /\ "f_dir" \in DOMAIN parsed <=> dir # "-"
                     /\ dir # "-" => parsed["f_dir"] = dir
    /\ \A dir \in {"0", "1", "2", "3", "9"} :
          \E params \in {controlParams_BRP069(Update(NewValues, SwingReport("0", "0", dir)))} :
             /\ "f_dir" \notin DOMAIN params
             /\ SwingCode(params["f_dir_ud"], params["f_dir_lr"])
                   = (IF dir = "9" THEN "0" ELSE dir)
    /\ (/\ ret.op = "Set" /\ device.class = "BRP069" /\ err = ""
        /\ "f_dir_lr" \in DOMAIN values.data /\ "f_dir" \in DOMAIN values.data) =>
          /\ "f_dir" \notin DOMAIN CommandOf(sent)
          /\ SwingCode(CommandOf(sent)["f_dir_ud"], CommandOf(sent)["f_dir_lr"])
                = values.data["f_dir"]
          /\ target \in SwingTargets =>
                /\ CommandOf(sent)["f_dir_ud"] = SubSeq(target, 14, 14)
                /\ CommandOf(sent)["f_dir_lr"] = SubSeq(target, 15, 15)

\* a device that reports vertical swing as (S, 0) was refreshed and then commanded:
\* the cached f_dir is 1 and the command carries (S, 0) again
C33_Witness ==
    /\ ret.op = "Set"
    /\ device.class = "BRP069"
    /\ target = "legacy_swing_S0"
    /\ err = ""
    /\ values.data["f_dir_ud"] = "S" /\ values.data["f_dir_lr"] = "0"
    /\ "f_dir" \in DOMAIN values.data /\ values.data["f_dir"] = "1"
    /\ CommandOf(sent)["f_dir_ud"] = "S"
    /\ CommandOf(sent)["f_dir_lr"] = "0"

(***************************************************************************)
(* The temperature codec of the tree protocol                              *)
(***************************************************************************)
\* the value of a hex digit, read off the digit's place in 0..9, a..f / A..F
DigitValue(c) == CHOOSE n \in 0..15 : c \in {At(HexDigits, n + 1), At(HexUpper, n + 1)}

\* the unsigned byte the first two hex digits of a wire value spell
ByteOf(raw) == 16 * DigitValue(At(raw, 1)) + DigitValue(At(raw, 2))

\* C34: hexToTemp(raw, d) is the unsigned byte value of the first two hex digits of
\* raw divided by d, for d in {1, 2} and every raw value of at least two hex digits;
\* and for every target temperature t that is a multiple of 0.5 with 2t in 0..255,
\* hexToTemp(tempToHex(t, 2), 2) = t.  Temperatures are in tenths of a degree.
C34_TemperatureCodec ==
    /\ (decoded.op = "hexToTemp" /\ "temperature" \notin DOMAIN decoded) =>
          decoded.temp * decoded.divisor = 10 * ByteOf(decoded.raw)
    /\ decoded.op = "tempToHex" =>
          /\ Len(decoded.raw) = 2
          /\ 10 * ByteOf(decoded.raw) = 2 * decoded.temperature
    /\ (decoded.op = "hexToTemp" /\ "temperature" \in DOMAIN decoded) =>
          decoded.temp = decoded.temperature

\* 22.5 degrees were encoded as 2d and decoded back; 2C00 was decoded with divisor 2
C34_Witness ==
    \/ /\ decoded.op = "hexToTemp" /\ "temperature" \in DOMAIN decoded
       /\ decoded.temperature = 225 /\ decoded.raw = "2d" /\ decoded.temp = 225
    \/ /\ decoded.op = "hexToTemp" /\ "temperature" \notin DOMAIN decoded
       /\ decoded.raw = "2C00" /\ decoded.divisor = 2 /\ decoded.temp = 220

\* C35: for every direction d in {off, vertical, horizontal, both}, the flag words
\* that handleSwingSetting writes for f_dir = d are decoded by getSwingState back to
\* d, when the device echoes the written flag words in its next status response.
C35_SwingRoundTrip ==
    decoded.op = "getSwingState after Set" =>
        /\ Len(decoded.requests) = 2
        /\ decoded.state = decoded.f_dir

(***************************************************************************)
(* Set when the device refuses the command                                 *)
(***************************************************************************)
\* the resource Set reads before it writes the settings
ControlInfo(class) ==
    IF class = "AirBase" THEN "skyfi/aircon/get_control_info" ELSE "aircon/get_control_info"

\* key holds a value that a refresh of the adapter caches: the one UpdateStatus
\* stores, or the one the device reports in its control info
IsReported(key, value) ==
    \/ \E u \in UpdateStatus(target, Adapter, now) :
          key \in DOMAIN u.d.values.data /\ u.d.values.data[key] = value
    \/ /\ device.class \in {"BRP069", "AirBase"}
       /\ \E r \in {getResource(target, Adapter, ControlInfo(device.class), EmptyMap)} :
             key \in DOMAIN r.data /\ r.data[key] = value

\* the Set call of the step sent its command and the command failed
CommandFailed(requests) ==
    /\ requests # <<>>
    /\ IsCommand(requests[Len(requests)])
    /\ ErrorOf(requests[Len(requests)]) # ""

\* C36: when Set returns an error because the command request to the device failed,
\* the attribute store holds no requested setting as if it had been applied: every
\* value in it was there before the call or is what the device reports.
C36_FailedCommandLeavesTheCache ==
    [][(ret'.op = "Set" /\ err' # "" /\ CommandFailed(sent')) =>
          \A key \in DOMAIN values'.data :
             \/ key \in DOMAIN values.data /\ values'.data[key] = values.data[key]
             \/ IsReported(key, values'.data[key])]_vars

(***************************************************************************)
(* What a command carries, against what the device reports                 *)
(***************************************************************************)
\* the settings of the Set call that the step records
CommandSettingsOf(text) == {settings \in CommandSettings : SettingsText(settings) = text}

\* the control info the device reports
ControlReport == getResource(target, Adapter, ControlInfo(device.class), EmptyMap).data

\* the last call was a Set of the class whose command was sent
CommandSent(class) ==
    /\ ret.op = "Set"
    /\ device.class = class
    /\ sent # <<>>
    /\ IsCommand(sent[Len(sent)])

\* C37: a Set of the AirBase adapter whose settings do not mention f_rate sends the
\* device the fan rate and the f_auto flag that the device reports; so for a device
\* that reports f_auto = 1 the command carries f_auto = 1.
C37_FanAutoIsPreserved ==
    CommandSent("AirBase") =>
        \A settings \in CommandSettingsOf(ret.arg) :
            "f_rate" \notin DOMAIN settings =>
                /\ CommandOf(sent)["f_rate"] = MapGet(ControlReport, "f_rate")
                /\ CommandOf(sent)["f_auto"] = MapGet(ControlReport, "f_auto")

(***************************************************************************)
(* The three maps of the attribute store, against each other               *)
(***************************************************************************)
\* C38: after any sequence of store operations every key with an owning-resource
\* record has a value, and every resource with a freshness entry was the argument of
\* an UpdateByResource; Delete(k) removes k's value and k's ownership record, and
\* leaves the freshness entries and every other key as they are.
C38_OwnedKeysHaveValues ==
    /\ [](/\ DOMAIN values.resourceByKey \subseteq DOMAIN values.data
          /\ DOMAIN values.lastUpdateByResource \subseteq DOMAIN fetchedAt)
    /\ [][ret'.op = "Delete" =>
             /\ ret'.arg \notin DOMAIN values'.data
             /\ ret'.arg \notin DOMAIN values'.resourceByKey
             /\ values'.lastUpdateByResource = values.lastUpdateByResource
             /\ MapDelete(values.data, ret'.arg) = values'.data
             /\ MapDelete(values.resourceByKey, ret'.arg) = values'.resourceByKey]_vars

\* a key was deleted from a store in which a resource has a freshness entry and
\* owns another key
C38_Witness ==
    /\ ret.op = "Delete"
    /\ ret.arg \notin DOMAIN values.data
    /\ \E resource \in DOMAIN values.lastUpdateByResource :
          /\ resource \in DOMAIN fetchedAt
          /\ \E key \in DOMAIN values.resourceByKey : values.resourceByKey[key] = resource

\* C39: UpdateByResource(R, batch) gives every key of the batch the batch's value
\* and the owner R, whoever owned it before, leaves the other keys alone and stamps
\* R; so after UpdateByResource(R1, {k: ...}) and UpdateByResource(R2, {k: ...}) the
\* value of k is the one from R2 and its owner is R2.  An invalidating read of k then
\* makes ShouldResourceBeUpdated true for the owner and leaves its answer for every
\* other resource as it was: false for R1 within the TTL.
C39_OwnershipFollowsTheLastSupplier ==
    [][/\ ret'.op = "UpdateByResource" =>
             /\ \A key \in DOMAIN ret'.value :
                   /\ values'.data[key] = ret'.value[key]
                   /\ values'.resourceByKey[key] = ret'.arg
             /\ \A key \in StoreKeys \ DOMAIN ret'.value :
                   /\ MapGet(values'.data, key) = MapGet(values.data, key)
                   /\ MapGet(values'.resourceByKey, key) = MapGet(values.resourceByKey, key)
             /\ values'.lastUpdateByResource[ret'.arg] = now
       /\ (/\ ret.op = "UpdateByResource" /\ ret'.op = "UpdateByResource"
           /\ ret.arg # ret'.arg) =>
             \A key \in DOMAIN ret.value \cap DOMAIN ret'.value :
                /\ values.resourceByKey[key] = ret.arg
                /\ values'.resourceByKey[key] = ret'.arg
                /\ values'.data[key] = ret'.value[key]
       /\ (/\ ret'.op = "Get" /\ ret'.invalidate /\ ret'.ok
           /\ ret'.arg \in DOMAIN values.resourceByKey) =>
             /\ ShouldResourceBeUpdated(values', values.resourceByKey[ret'.arg], now).result
             /\ \A other \in Resources \ {values.resourceByKey[ret'.arg]} :
                   ShouldResourceBeUpdated(values', other, now).result
                      = ShouldResourceBeUpdated(values, other, now).result]_vars

\* both resources have supplied batches, R2 owns the key that was just read with
\* invalidation and has to be fetched again, R1 has not
C39_Witness ==
    /\ ret.op = "Get" /\ ret.invalidate /\ ret.ok
    /\ {"R1", "R2"} \subseteq DOMAIN fetchedAt
    /\ fetchedAt["R1"] <= fetchedAt["R2"]
    /\ ret.arg \in DOMAIN values.resourceByKey
    /\ values.resourceByKey[ret.arg] = "R2"
    /\ ShouldResourceBeUpdated(values, "R2", now).result
    /\ ~ShouldResourceBeUpdated(values, "R1", now).result

\* what the command of a Set with a mode key has to carry; exempt are the command
\* parameters that are not compared with the device's report
ModeCommandIsRight(exempt) ==
    \A class \in {"BRP069", "AirBase"} :
        CommandSent(class) =>
            \A settings \in CommandSettingsOf(ret.arg) :
                "mode" \in DOMAIN settings =>
                    IF settings["mode"] = "off"
                    THEN /\ CommandOf(sent)["pow"] = "0"
                         /\ CommandOf(sent)["mode"] = MapGet(ControlReport, "mode")
                         /\ \A key \in (DOMAIN CommandOf(sent) \cap DOMAIN ControlReport)
                                          \ ({"pow", "mode"} \cup exempt) :
                               CommandOf(sent)[key] = ControlReport[key]
                    ELSE /\ CommandOf(sent)["pow"] = "1"
                         /\ CommandOf(sent)["mode"] \in DOMAIN device.Translations["mode"]
                         /\ device.Translations["mode"][CommandOf(sent)["mode"]]
                               = settings["mode"]

\* C40: on the legacy and AirBase adapters Set({mode: "off"}) sends a command with
\* pow = 0 whose mode is the wire mode the device reports in its control info and
\* whose other parameters are the ones the device reports; Set with a mode other
\* than "off" sends pow = 1 and the wire code of that mode.
C40_ModeOffKeepsTheOperatingMode == ModeCommandIsRight({})

\* the same with the f_auto flag of the AirBase command left out of the comparison:
\* this much holds
ModeOffApartFromFanAuto == ModeCommandIsRight({"f_auto"})

====
